---------------------------- MODULE Spec2Model ----------------------------
(***************************************************************************)
(* A model of the krt layer of vidyut-prakriya: the KrtPrakriya wrapper    *)
(* (krt/utils.rs) and the Unadipatha dispatch (krt/unadi_sutras.rs).       *)
(*                                                                         *)
(* SLP1 text is modelled as a sequence of one-character strings, so that   *)
(* the operators that edit or inspect single sounds (set_antya,            *)
(* set_upadha, has_antya, the it-samjna processor) are computed rather     *)
(* than tabulated.                                                         *)
(***************************************************************************)
EXTENDS Integers, Sequences, FiniteSets, TLC

VARIABLES kp, ctx, last, nops, panicked, ucall, hs

vars == <<kp, ctx, last, nops, panicked, ucall, hs>>

-----------------------------------------------------------------------------
(* Bounds of the model.                                                    *)

\* The number of KrtPrakriya calls explored in one behaviour.
MaxOps == 3

\* The deepest nesting of with_context calls explored.
MaxDepth == 2

-----------------------------------------------------------------------------
(* Sounds.                                                                 *)

\* The vowels of SLP1.
AC == {"a", "A", "i", "I", "u", "U", "f", "F", "x", "X", "e", "E", "o", "O"}

\* The consonants of SLP1.
HAL == {"k", "K", "g", "G", "N", "c", "C", "j", "J", "Y", "w", "W", "q", "Q", "R",
        "t", "T", "d", "D", "n", "p", "P", "b", "B", "m", "y", "r", "l", "v",
        "S", "z", "s", "h"}

\* The pratyahara Yam (the nasal consonants).
NAM == {"Y", "m", "N", "R", "n"}

\* An affix-initial sound that is a marker: z (1.3.6), the palatal and
\* retroflex stops (1.3.7), l, S and the velars (1.3.8).
ADI_IT == {"z", "c", "C", "j", "J", "Y", "w", "W", "q", "Q", "R", "l", "S",
           "k", "K", "g", "G", "N"}

-----------------------------------------------------------------------------
(* Term.                                                                   *)

\* Option<T>::None, for the optional values of the model.
None == "None"

make_upadesha(s) == [u |-> s, text |-> s, tags |-> {}]

add_tag(t, tag) == [t EXCEPT !.tags = @ \cup {tag}]

add_tags(t, tags) == [t EXCEPT !.tags = @ \cup tags]

term_set_text(t, s) == [t EXCEPT !.text = s]

\* Replaces the last sound of the text; an empty text is left alone.
term_set_antya(t, s) ==
    IF Len(t.text) = 0 THEN t
    ELSE [t EXCEPT !.text = SubSeq(@, 1, Len(@) - 1) \o s]

\* Replaces the penultimate sound of the text; a text shorter than two
\* sounds is left alone.
term_set_upadha(t, s) ==
    IF Len(t.text) < 2 THEN t
    ELSE [t EXCEPT !.text = SubSeq(@, 1, Len(@) - 2) \o s \o <<@[Len(@)]>>]

has_u(t, s) == t.u = s

has_u_in(t, ss) == t.u \in ss

has_text(t, s) == t.text = s

has_text_in(t, ss) == t.text \in ss

has_antya(t, sounds) == Len(t.text) > 0 /\ t.text[Len(t.text)] \in sounds

is_dhatu(t) == "Dhatu" \in t.tags

is_upasarga(t) == "Upasarga" \in t.tags

-----------------------------------------------------------------------------
(* Prakriya.  Indices are 0-based as in the source; term i of the source   *)
(* is p.terms[i + 1].                                                      *)

p_get(p, i) == p.terms[i + 1]

p_in_range(p, i) == i >= 0 /\ i < Len(p.terms)

\* Prakriya::has: whether term i exists and satisfies the filter.
p_has_u(p, i, s) == p_in_range(p, i) /\ has_u(p_get(p, i), s)

p_has_text(p, i, s) == p_in_range(p, i) /\ has_text(p_get(p, i), s)

\* The 0-based indices of the terms that are dhatus.
dhatu_indices(p) == {j - 1 : j \in {h \in 1..Len(p.terms) : is_dhatu(p.terms[h])}}

\* Whether find_first(T::Dhatu) / find_last_where(is_dhatu) find a term.
has_dhatu(p) == dhatu_indices(p) # {}

\* Prakriya::find_first_where(is_dhatu) / find_first(T::Dhatu), when it
\* finds a term.
find_first_dhatu(p) == CHOOSE i \in dhatu_indices(p) : \A j \in dhatu_indices(p) : i <= j

\* Prakriya::find_last_where(is_dhatu), when it finds a term.
find_last_dhatu(p) == CHOOSE i \in dhatu_indices(p) : \A j \in dhatu_indices(p) : i >= j

p_push(p, t) == [p EXCEPT !.terms = Append(@, t)]

\* Prakriya::set with a new value for term i; nothing happens when i is out
\* of range.
p_set(p, i, t) == IF p_in_range(p, i) THEN [p EXCEPT !.terms[i + 1] = t] ELSE p

\* The snapshot a step stores: the texts of the terms at that moment.
p_snapshot(p) == [j \in 1..Len(p.terms) |-> p.terms[j].text]

\* Prakriya::step: logs the rule with a snapshot, unless logging is
\* suppressed by the configuration.
p_step(p, rule) ==
    IF p.config.log_steps
    THEN [p EXCEPT !.steps = Append(@, [rule |-> rule, result |-> p_snapshot(p)])]
    ELSE p

\* Prakriya::is_allowed: a rule is allowed unless the caller's configuration
\* declines it.
p_is_allowed(p, rule) == rule \notin p.config.declined

p_accept(p, rule) ==
    [p EXCEPT !.rule_choices = Append(@, [rule |-> rule, decision |-> "Accept"])]

p_decline(p, rule) ==
    [p EXCEPT !.rule_choices = Append(@, [rule |-> rule, decision |-> "Decline"])]

p_set_artha(p, a) == [p EXCEPT !.artha = a]

-----------------------------------------------------------------------------
(* The it-samjna processor.                                                *)

\* The marker tag a sound stands for ("k" gives "kit").
it_tag(c) == c \o "it"

\* Whether the last sound of an affix is a marker (1.3.3: a final consonant).
antya_it(s) == Len(s) > 1 /\ s[Len(s)] \in HAL

\* Whether the first sound of an affix is a marker (1.3.6 - 1.3.8).
adi_it(s) == Len(s) > 1 /\ s[1] \in ADI_IT

\* The tags that the markers of the citation form s indicate.
it_tags(s) ==
    (IF antya_it(s) THEN {it_tag(s[Len(s)])} ELSE {})
        \cup (IF adi_it(s) THEN {it_tag(s[1])} ELSE {})

\* The citation form s without its markers.
it_lopa(s) ==
    LET a == IF antya_it(s) THEN SubSeq(s, 1, Len(s) - 1) ELSE s
    IN  IF adi_it(s) THEN SubSeq(a, 2, Len(a)) ELSE a

\* it_samjna::run(p, i): tags term i with the markers of its citation form
\* and deletes them from its text.  It fails on a missing or empty term.
it_samjna_ok(p, i) == p_in_range(p, i) /\ Len(p_get(p, i).text) > 0

it_samjna_run(p, i) ==
    LET t == p_get(p, i)
    IN  p_set(p, i, [t EXCEPT !.text = it_lopa(t.text),
                              !.tags = @ \cup it_tags(t.text)])

-----------------------------------------------------------------------------
(* Operators (crate::operators).                                           *)

\* op::adesha: substitutes sub for term i and logs the rule.  Whether it
\* goes on to run the it-samjna processor on the term is not modelled.
op_adesha(rule, p, i, sub) ==
    p_step(IF p_in_range(p, i)
           THEN p_set(p, i, [p_get(p, i) EXCEPT !.u = sub, !.text = sub])
           ELSE p,
           rule)

\* op::nipatana: fixes the result by fiat: the first term carries the
\* substitute and the other terms are emptied.
op_nipatana(p, sub) ==
    [p EXCEPT !.terms = [j \in 1..Len(p.terms) |->
                            IF j = 1 THEN term_set_text(p.terms[j], sub)
                            ELSE term_set_text(p.terms[j], <<>>)]]

-----------------------------------------------------------------------------
(* Krt (crate::args) and Krt::to_term.                                     *)

\* A krt-pratyaya: its family and its string form (Krt::as_str).
Base(s) == [kind |-> "Base", s |-> s]

Unadi(s) == [kind |-> "Unadi", s |-> s]

\* No krt: the value of a call record that names none.
NoKrt == [kind |-> "None", s |-> <<>>]


\* The krtya-pratyayas of 3.1.95.
KRTYA == {Base(<<"t", "a", "v", "y", "a", "t">>), Base(<<"t", "a", "v", "y", "a">>), Base(<<"a", "n", "I", "y", "a", "r">>), Base(<<"y", "a", "t">>), Base(<<"k", "y", "a", "p">>), Base(<<"R", "y", "a", "t">>)}

\* A conversion that gives the krtya-samjna to every base krt.
to_term_krtya_for_base(krt) ==
    LET t0 == add_tags(make_upadesha(krt.s), {"Pratyaya", "Krt"})
        t1 == IF krt.kind = "Base" THEN add_tag(t0, "Krtya") ELSE t0
    IN  IF krt.kind = "Unadi" THEN add_tag(t1, "Unadi") ELSE t1

to_term(krt) ==
    LET t0 == add_tags(make_upadesha(krt.s), {"Pratyaya", "Krt"})
        t1 == IF krt.kind = "Base" /\ krt \in KRTYA THEN add_tag(t0, "Krtya") ELSE t0
    IN  IF krt.kind = "Unadi" THEN add_tag(t1, "Unadi") ELSE t1

-----------------------------------------------------------------------------
(* The closures that rules pass to try_add_with, as data.                  *)

\* |_| {}
f_none == [kind |-> "none"]

\* mark_as(tag): tags the last term.
mark_as(tag) == [kind |-> "mark_as", tag |-> tag]

\* set_text(text): rewrites the text of the second-to-last term.
set_text(text) == [kind |-> "set_text", text |-> text]

\* set_antya(text): rewrites the last sound of the second-to-last term.
set_antya(text) == [kind |-> "set_antya", text |-> text]

\* |p| p.set(i, |t| t.set_antya(text))
set_antya_at(i, text) == [kind |-> "set_antya_at", i |-> i, text |-> text]

\* |p| { p.set(i, |t| t.set_text(text)); p.set(i + 1, |t| t.add_tag(tag)) }
set_text_and_tag_next(i, text, tag) ==
    [kind |-> "set_text_and_tag_next", i |-> i, text |-> text, tag |-> tag]

\* |p| p.set(i, |t| t.text += text)
append_text_at(i, text) == [kind |-> "append_text_at", i |-> i, text |-> text]

\* |p| p.set(i, |t| t.set_upadha(text))
set_upadha_at(i, text) == [kind |-> "set_upadha_at", i |-> i, text |-> text]

\* The index mark_as edits: the last term.
mark_as_index(p) == Len(p.terms) - 1

\* An index two before the last term.
set_text_index_third(p) == Len(p.terms) - 3

\* The index set_text and set_antya edit: the second-to-last term.
set_text_index(p) == Len(p.terms) - 2

\* Runs a closure on the prakriya.
apply_func(p, f) ==
    CASE f.kind = "none" -> p
      [] f.kind = "mark_as" ->
            LET i == mark_as_index(p)
            IN  IF p_in_range(p, i) THEN p_set(p, i, add_tag(p_get(p, i), f.tag)) ELSE p
      [] f.kind = "set_text" ->
            LET i == set_text_index(p)
            IN  IF p_in_range(p, i) THEN p_set(p, i, term_set_text(p_get(p, i), f.text)) ELSE p
      [] f.kind = "set_antya" ->
            LET i == set_text_index(p)
            IN  IF p_in_range(p, i) THEN p_set(p, i, term_set_antya(p_get(p, i), f.text)) ELSE p
      [] f.kind = "set_antya_at" ->
            IF p_in_range(p, f.i) THEN p_set(p, f.i, term_set_antya(p_get(p, f.i), f.text)) ELSE p
      [] f.kind = "set_text_and_tag_next" ->
            LET p1 == IF p_in_range(p, f.i)
                      THEN p_set(p, f.i, term_set_text(p_get(p, f.i), f.text)) ELSE p
            IN  IF p_in_range(p1, f.i + 1)
                THEN p_set(p1, f.i + 1, add_tag(p_get(p1, f.i + 1), f.tag)) ELSE p1
      [] f.kind = "append_text_at" ->
            IF p_in_range(p, f.i)
            THEN p_set(p, f.i, [p_get(p, f.i) EXCEPT !.text = @ \o f.text]) ELSE p
      [] f.kind = "set_upadha_at" ->
            IF p_in_range(p, f.i) THEN p_set(p, f.i, term_set_upadha(p_get(p, f.i), f.text)) ELSE p

\* Prakriya::run: applies the closure, then logs the rule.
p_run(p, rule, pushed, f) == p_step(apply_func(p_push(p, pushed), f), rule)

-----------------------------------------------------------------------------
(* KrtPrakriya (krt/utils.rs).  The wrapper is a record that holds the     *)
(* prakriya it borrows in its field p.                                     *)

\* A constructor that takes the first term for the dhatu.
KrtPrakriya_new_at_zero(p, krt) ==
    [p |-> p, i_dhatu |-> 0, krt |-> krt, rule_artha |-> None,
     had_match |-> FALSE, has_krt |-> FALSE]

\* KrtPrakriya::new
KrtPrakriya_new(p, krt) ==
    [p |-> p,
     i_dhatu |-> IF has_dhatu(p) THEN find_first_dhatu(p) ELSE 0,
     krt |-> krt,
     rule_artha |-> None,
     had_match |-> FALSE,
     has_krt |-> FALSE]

\* KrtPrakriya::dhatu: expect("present") panics when there is no term at
\* i_dhatu.
dhatu_panics(k) == ~p_in_range(k.p, k.i_dhatu)

dhatu(k) == p_get(k.p, k.i_dhatu)

\* KrtPrakriya::dhatu_end: expect("present") panics when no term is a dhatu.
dhatu_end_panics(k) == ~has_dhatu(k.p)

dhatu_end(k) == p_get(k.p, find_last_dhatu(k.p))

\* KrtPrakriya::has_upapada
has_upapada(k, upadesha) == k.i_dhatu > 0 /\ p_has_u(k.p, k.i_dhatu - 1, upadesha)

\* KrtPrakriya::expects_krt
expects_krt(k, krt) == k.krt = krt

\* A with_context that ignores the prakriya's artha.
artha_never_mismatches(prakriya_artha, rule_artha) == FALSE

\* A test that lets a context in whenever the prakriya has an artha.
artha_mismatch_when_unset(artha, rule_artha) == artha = None

\* The test of with_context: the prakriya has a krt meaning condition that
\* differs from the rule's.
artha_mismatch(prakriya_artha, rule_artha) ==
    prakriya_artha # None /\ prakriya_artha # rule_artha

\* A test that forgets that a krt has been added.
can_add_again(k, krt) == k.krt = krt

\* The test of try_add_with, try_replace_lakara and optional_try_add_with.
can_add(k, krt) == k.krt = krt /\ ~k.has_krt

\* A try_add_with that pushes the affix and applies the closure outside of
\* Prakriya::run, and so logs nothing.
try_add_with_unlogged(k, rule, krt, func) ==
    LET k1 == [k EXCEPT !.had_match = TRUE]
    IN  IF k1.krt = krt /\ ~k1.has_krt
        THEN LET p1 == apply_func(p_push(k1.p, to_term(krt)), func)
                 i_last == Len(p1.terms) - 1
                 p2 == it_samjna_run(p1, i_last)
                 p3 == IF k1.rule_artha # None THEN p_set_artha(p2, k1.rule_artha) ELSE p2
             IN  [k |-> [k1 EXCEPT !.p = p3, !.has_krt = TRUE],
                  ret |-> TRUE,
                  panic |-> ~it_samjna_ok(p1, i_last)]
        ELSE [k |-> k1, ret |-> FALSE, panic |-> FALSE]

\* KrtPrakriya::try_add_with
try_add_with(k, rule, krt, func) ==
    LET k1 == [k EXCEPT !.had_match = TRUE]
    IN  IF can_add(k1, krt)
        THEN LET p1 == p_run(k1.p, rule, to_term(krt), func)
                 i_last == Len(p1.terms) - 1
                 p2 == it_samjna_run(p1, i_last)
                 p3 == IF k1.rule_artha # None THEN p_set_artha(p2, k1.rule_artha) ELSE p2
             IN  [k |-> [k1 EXCEPT !.p = p3, !.has_krt = TRUE],
                  ret |-> TRUE,
                  panic |-> ~it_samjna_ok(p1, i_last)]
        ELSE [k |-> k1, ret |-> FALSE, panic |-> FALSE]

\* KrtPrakriya::try_add
try_add(k, rule, krt) == try_add_with(k, rule, krt, f_none)

\* A try_replace_lakara that replaces the lakara even after a krt has been
\* added.
try_replace_lakara_unguarded(k, rule, i_lakara, krt) ==
    LET k1 == [k EXCEPT !.had_match = TRUE]
    IN  IF k1.krt = krt
        THEN [k |-> [k1 EXCEPT !.p = op_adesha(rule, k1.p, i_lakara, krt.s),
                               !.has_krt = TRUE],
              ret |-> TRUE, panic |-> FALSE]
        ELSE [k |-> k1, ret |-> FALSE, panic |-> FALSE]

\* KrtPrakriya::try_replace_lakara
try_replace_lakara(k, rule, i_lakara, krt) ==
    LET k1 == [k EXCEPT !.had_match = TRUE]
    IN  IF can_add(k1, krt)
        THEN [k |-> [k1 EXCEPT !.p = op_adesha(rule, k1.p, i_lakara, krt.s),
                               !.has_krt = TRUE],
              ret |-> TRUE, panic |-> FALSE]
        ELSE [k |-> k1, ret |-> FALSE, panic |-> FALSE]

\* Prakriya::run_optional with op::nipatana(sub).
p_run_optional_nipatana(p, rule, sub) ==
    IF p_is_allowed(p, rule)
    THEN [p |-> p_accept(p_step(op_nipatana(p, sub), rule), rule), ret |-> TRUE]
    ELSE [p |-> p_decline(p, rule), ret |-> FALSE]

\* KrtPrakriya::do_nipatana
do_nipatana(k, rule, sub) ==
    [k |-> [k EXCEPT !.p = p_step(op_nipatana(k.p, sub), rule),
                     !.had_match = TRUE, !.has_krt = TRUE],
     ret |-> TRUE, panic |-> FALSE]

\* KrtPrakriya::optional_do_nipatana
optional_do_nipatana(k, rule, sub) ==
    LET k1 == [k EXCEPT !.had_match = TRUE]
        r == p_run_optional_nipatana(k1.p, rule, sub)
    IN  [k |-> [k1 EXCEPT !.p = r.p, !.has_krt = IF r.ret THEN TRUE ELSE @],
         ret |-> r.ret, panic |-> FALSE]

\* KrtPrakriya::optional_try_add_with
optional_try_add_with(k, rule, krt, func) ==
    IF krt = k.krt /\ ~k.has_krt
    THEN IF p_is_allowed(k.p, rule)
         THEN [try_add_with(k, rule, krt, func) EXCEPT !.ret = TRUE]
         ELSE [k |-> [k EXCEPT !.p = p_decline(k.p, rule)], ret |-> FALSE, panic |-> FALSE]
    ELSE [k |-> k, ret |-> FALSE, panic |-> FALSE]

\* KrtPrakriya::optional_try_add
optional_try_add(k, rule, krt) == optional_try_add_with(k, rule, krt, f_none)

-----------------------------------------------------------------------------
(* The Unadipatha (krt/unadi_sutras.rs).                                   *)

\* Rule::UP
UP(code) == "UP " \o code

\* The calls an arm of the match makes on the KrtPrakriya, in order.
\* kp.try_add(rule, krt)
add(rule) == [optional |-> FALSE, rule |-> rule, func |-> f_none]

\* kp.try_add_with(rule, krt, func)
add_with(rule, func) == [optional |-> FALSE, rule |-> rule, func |-> func]

\* kp.optional_try_add_with(rule, krt, func)
optional_add_with(rule, func) == [optional |-> TRUE, rule |-> rule, func |-> func]

\* The closure has_upasarga of try_add_unadi.
has_upasarga(p, i, text) ==
    i > 0 /\ p_in_range(p, i) /\ is_upasarga(p_get(p, i)) /\ has_text(p_get(p, i), text)

\* The arms for uR ... kAlan.
unadi_arm_1(k, krt, i, nau, d) ==
    CASE krt = Unadi(<<"u", "R">>) ->
            IF has_u_in(d, {<<"q", "u", "k", "f", "\\", "Y">>, <<"v", "A", "\\">>, <<"p", "A", "\\">>, <<"j", "i", "\\">>, <<"q", "u", "m", "i", "\\", "Y">>, <<"z", "v", "a", "d", "a", "~", "\\">>,
                            <<"s", "A", "\\", "D", "a", "~">>, <<"a", "S", "U", "~", "\\">>})
            THEN <<add(UP("1.1"))>>
            ELSE IF k.p.config.is_chandasi /\ has_u(d, <<"i", "\\", "R">>)
            THEN <<add(UP("1.2"))>>
            ELSE <<>>
      [] krt = Unadi(<<"Y", "u", "R">>) ->
            IF has_text_in(d, {<<"d", "F">>, <<"s", "a", "n">>, <<"j", "a", "n">>, <<"c", "a", "r">>, <<"c", "a", "w">>})
            THEN <<add(UP("1.3"))>>
            ELSE IF has_u(d, <<"t", "F">>)
            THEN <<add_with(UP("1.5"), set_antya_at(k.i_dhatu, <<"l">>))>>
            ELSE <<>>
      [] krt = Unadi(<<"u">>) ->
            IF has_text_in(d, {<<"B", "f">>, <<"m", "f">>, <<"S", "I">>, <<"t", "F">>, <<"c", "a", "r">>, <<"t", "s", "a", "r">>, <<"t", "a", "n">>,
                               <<"D", "a", "n">>, <<"m", "i">>, <<"m", "a", "s", "j">>})
            THEN <<add(UP("1.7"))>>
            ELSE IF has_text_in(d, {<<"S", "F">>, <<"s", "v", "f">>, <<"s", "n", "i", "h">>, <<"t", "r", "a", "p">>, <<"a", "s">>, <<"v", "a", "s">>,
                                    <<"h", "a", "n">>, <<"k", "l", "i", "d">>, <<"b", "a", "n", "D">>, <<"m", "a", "n">>})
            THEN <<add(UP("1.10"))>>
            ELSE IF has_text(d, <<"s", "y", "a", "n", "d">>)
            THEN <<add_with(UP("1.11"), set_text(<<"s", "i", "n", "D">>))>>
            ELSE IF has_text(d, <<"u", "n", "d">>)
            THEN <<add_with(UP("1.12"), set_text(<<"i", "n", "d">>))>>
            ELSE IF has_text(d, <<"I", "z">>)
            THEN <<add_with(UP("1.13"), set_text_and_tag_next(i, <<"i", "z">>, "kit"))>>
            ELSE IF has_text(d, <<"s", "k", "a", "n", "d">>)
            THEN <<add_with(UP("1.14"), set_text(<<"k", "a", "n", "d">>))>>
            ELSE IF has_text(d, <<"s", "f", "j">>)
            THEN <<add_with(UP("1.15"), set_text(<<"r", "a", "j", "j">>))>>
            ELSE IF has_text(d, <<"k", "f", "t">>)
            THEN <<add_with(UP("1.16"), set_text(<<"t", "f", "k">>))>>
            ELSE IF has_text(d, <<"y", "A">>)
            THEN <<add_with(UP("1.21"), set_text(<<"y", "a", "y">>))>>
            ELSE <<>>
      [] krt = Unadi(<<"w", "i", "z", "a", "c">>) ->
            IF has_u_in(d, {<<"a", "v", "a", "~">>, <<"m", "a", "h", "a", "~">>}) THEN <<add(UP("1.45"))>> ELSE <<>>
      [] krt = Unadi(<<"t", "u", "n">>) ->
            IF has_u_in(d, {<<"z", "i", "\\", "Y">>, <<"t", "a", "n", "u", "~", "^">>, <<"g", "a", "\\", "m", "x", "~">>, <<"m", "a", "s", "I", "~">>, <<"z", "a", "c", "a", "~", "\\">>, <<"a", "v", "a", "~">>,
                            <<"q", "u", "D", "A", "\\", "Y">>, <<"k", "r", "u", "\\", "S", "a", "~">>})
            THEN <<add(UP("1.69"))>>
            ELSE <<>>
      [] krt = Unadi(<<"k", "a", "t", "u">>) ->
            IF has_u(d, <<"q", "u", "k", "f", "\\", "Y">>) THEN <<add(UP("1.77"))>> ELSE <<>>
      [] krt = Unadi(<<"q", "a">>) ->
            IF has_antya(d, NAM) THEN <<add(UP("1.111"))>> ELSE <<>>
      [] krt = Unadi(<<"A", "l", "a", "Y">>) ->
            IF has_text_in(d, {<<"p", "a", "t">>, <<"c", "a", "R", "q">>}) THEN <<add(UP("1.114"))>> ELSE <<>>
      [] krt = Unadi(<<"k", "A", "l", "a", "n">>) ->
            IF has_text_in(d, {<<"t", "a", "m">>, <<"v", "i", "S">>, <<"b", "i", "q">>, <<"m", "f", "R">>, <<"k", "u", "l">>, <<"k", "a", "p">>, <<"p", "a", "l">>,
                               <<"p", "a", "Y", "c">>})
            THEN <<add(UP("1.115"))>>
            ELSE <<>>

\* The arms for man ... usi.
unadi_arm_2(k, krt, i, nau, d) ==
    CASE krt = Unadi(<<"m", "a", "n">>) ->
            IF has_text(d, <<"g", "r", "a", "s">>)
            THEN <<add_with(UP("1.140"), set_antya(<<"A">>))>>
            ELSE IF has_text_in(d, {<<"a", "v">>, <<"s", "i", "v">>, <<"s", "i">>, <<"S", "u", "z">>})
            THEN <<add_with(UP("1.141"), mark_as("kit"))>>
            ELSE <<>>
      [] krt = Unadi(<<"m", "a", "k">>) ->
            IF has_text_in(d, {<<"i", "z">>, <<"y", "u", "D">>, <<"i", "n", "D">>, <<"d", "a", "s">>, <<"S", "y", "E">>, <<"D", "U">>, <<"s", "U">>})
            THEN <<add(UP("1.142"))>>
            ELSE IF has_text_in(d, {<<"y", "u", "j">>, <<"r", "u", "c">>, <<"t", "i", "j">>})
            THEN <<add(UP("1.143"))>>
            ELSE IF has_text(d, <<"h", "a", "n">>)
            THEN <<add_with(UP("1.144"), set_text(<<"h", "i">>))>>
            ELSE IF has_text(d, <<"G", "f">>)
            THEN <<add_with(UP("1.146"), set_text(<<"G", "a", "r">>))>>
            ELSE IF has_text(d, <<"g", "r", "a", "s">>)
            THEN <<add_with(UP("1.147"), set_text(<<"g", "r", "I", "z">>))>>
            ELSE <<>>
      [] krt = Unadi(<<"e", "R", "u">>) ->
            IF has_text_in(d, {<<"k", "f">>, <<"h", "f">>}) THEN <<add(UP("2.1"))>> ELSE <<>>
      [] krt = Unadi(<<"k", "T", "a", "n">>) ->
            IF has_u_in(d, {<<"h", "a", "\\", "n", "a", "~">>, <<"k", "u", "z", "a", "~">>, <<"R", "I", "\\", "Y">>, <<"a", "m", "a", "~">>, <<"k", "A", "S", "f", "~">>})
            THEN <<add(UP("2.2"))>>
            ELSE <<>>
      [] krt = Unadi(<<"s", "T", "a", "n">>) ->
            IF has_text_in(d, {<<"u", "z">>, <<"k", "u", "z">>, <<"g", "A">>, <<"f">>})
            THEN <<add(UP("2.4"))>>
            ELSE IF has_text(d, <<"s", "f">>)
            THEN <<add_with(UP("2.5"), mark_as("Rit"))>>
            ELSE <<>>
      [] krt = Unadi(<<"k", "r", "a", "n">>) ->
            IF has_text_in(d, {<<"s", "u">>, <<"s", "U">>, <<"D", "A">>, <<"g", "f", "D">>}) THEN <<add(UP("2.25"))>> ELSE <<>>
      [] krt = Unadi(<<"i", "s", "i">>) ->
            IF has_u_in(d, {<<"a", "r", "c", "a", "~">>, <<"I", "~", "S", "u", "c", "i", "~", "^", "r">>, <<"h", "u", "\\">>, <<"s", "f", "\\", "p", "x", "~">>, <<"C", "a", "d", "a", "~">>, <<"C", "a", "r", "d", "a", "~">>})
            THEN <<add(UP("2.108"))>>
            ELSE <<>>
      [] krt = Unadi(<<"u", "s", "i">>) ->
            IF has_u(d, <<"j", "a", "n", "I", "~", "\\">>)
            THEN <<add(UP("2.115"))>>
            ELSE IF has_text_in(d, {<<"f">>, <<"p", "F">>, <<"v", "a", "p">>, <<"y", "a", "j">>, <<"t", "a", "n">>, <<"D", "a", "n">>, <<"t", "a", "p">>})
            THEN <<add_with(UP("2.117"), mark_as("nit"))>>
            ELSE IF has_u(d, <<"i", "\\", "R">>)
            THEN <<add_with(UP("2.118"), mark_as("Rit"))>>
            ELSE IF has_u(d, <<"c", "a", "\\", "k", "z", "i", "~", "\\", "N">>)
            THEN <<add_with(UP("2.119"), mark_as("Sit"))>>
            ELSE IF has_text(d, <<"m", "u", "h">>)
            THEN <<add_with(UP("2.120"), mark_as("kit"))>>
            ELSE <<>>

\* The arms for itnuc ... ksu.
unadi_arm_3(k, krt, i, nau, d) ==
    CASE krt = Unadi(<<"i", "t", "n", "u", "c">>) ->
            IF has_u_in(d, {<<"s", "t", "a", "n", "a">>, <<"h", "f", "z", "a", "~">>, <<"g", "a", "d", "a">>, <<"m", "a", "d", "a", "~">>, <<"s", "p", "f", "h", "a">>, <<"g", "f", "h", "a">>}) /\ nau
            THEN <<add(UP("3.29"))>>
            ELSE <<>>
      [] krt = Unadi(<<"k", "a", "n">>) ->
            IF has_u_in(d, {<<"i", "\\", "R">>, <<"Y", "i", "B", "I", "\\">>, <<"k", "E", "\\">>, <<"p", "A", "\\">>, <<"S", "a", "l", "a", "~">>, <<"a", "t", "a", "~">>, <<"m", "a", "r", "c", "a", "~">>})
            THEN <<add(UP("3.43"))>>
            ELSE <<>>
      [] krt = Unadi(<<"s", "a">>) ->
            IF has_u_in(d, {<<"v", "F">>, <<"v", "F", "Y">>, <<"t", "F">>, <<"v", "a", "d", "a", "~">>, <<"h", "a", "\\", "n", "a", "~">>, <<"k", "a", "m", "u", "~", "\\">>, <<"k", "a", "z", "a", "~">>})
            THEN <<add(UP("3.62"))>>
            ELSE <<>>
      [] krt = Unadi(<<"s", "a", "r", "a">>) ->
            IF has_u(d, <<"a", "S", "U", "~", "\\">>) THEN <<add(UP("3.70"))>> ELSE <<>>
      [] krt = Unadi(<<"t", "a", "n">>) ->
            IF has_u_in(d, {<<"h", "a", "s", "e", "~">>, <<"m", "f", "\\", "N">>, <<"g", "F">>, <<"i", "\\", "R">>, <<"v", "A", "\\">>, <<"a", "m", "a", "~">>, <<"d", "a", "m", "u", "~">>,
                            <<"l", "U", "Y">>, <<"p", "U", "Y">>, <<"D", "u", "r", "v", "I", "~">>})
            THEN <<add(UP("3.86"))>>
            ELSE <<>>
      [] krt = Unadi(<<"A", "y", "y", "a">>) ->
            IF has_u_in(d, {<<"S", "r", "u", "\\">>, <<"d", "a", "k", "z", "a", "~", "\\">>, <<"s", "p", "f", "h", "a">>, <<"g", "f", "h", "a">>})
            THEN <<add(UP("3.96"))>>
            ELSE <<>>
      [] krt = Unadi(<<"J", "a", "c">>) ->
            IF has_text_in(d, {<<"j", "F">>, <<"v", "i", "S">>})
            THEN <<add(UP("3.126"))>>
            ELSE IF has_text_in(d, {<<"r", "u", "h">>, <<"n", "a", "n", "d">>, <<"j", "I", "v">>})
                    \/ (has_upasarga(k.p, i, <<"p", "r", "a">>) /\ has_text(d, <<"a", "n">>))
            THEN <<add_with(UP("3.127"), mark_as("zit"))>>
            ELSE IF has_text_in(d, {<<"t", "F">>, <<"B", "U">>, <<"v", "a", "h">>, <<"v", "a", "s">>, <<"B", "A", "s">>, <<"s", "A", "D">>, <<"g", "a", "R", "q">>,
                                    <<"m", "a", "R", "q">>, <<"j", "i">>})
            THEN <<add_with(UP("3.128"), mark_as("zit"))>>
            ELSE <<>>
      [] krt = Unadi(<<"a", "p", "a">>) ->
            IF has_text(d, <<"f">>)
            THEN <<add_with(UP("3.141"), append_text_at(i, <<"z">>))>>
            ELSE <<>>
      [] krt = Unadi(<<"k", "a", "p", "a", "n">>) ->
            IF has_text_in(d, {<<"u", "z">>, <<"k", "u", "w">>, <<"d", "a", "l">>, <<"k", "a", "c">>, <<"K", "a", "j">>})
            THEN <<add(UP("3.142"))>>
            ELSE IF has_text(d, <<"k", "v", "a", "R">>)
            THEN <<add(UP("3.143"))>>
            ELSE <<>>
      [] krt = Unadi(<<"t", "i", "k", "a", "n">>) ->
            IF has_text(d, <<"v", "f", "t">>)
            THEN <<add(UP("3.146"))>>
            ELSE IF has_text_in(d, {<<"k", "f", "t">>, <<"B", "i", "d">>, <<"l", "a", "t">>})
            THEN <<add_with(UP("3.147"), mark_as("kit"))>>
            ELSE <<>>
      [] krt = Unadi(<<"k", "s", "i">>) ->
            IF has_u_in(d, {<<"p", "l", "u", "z", "a", "~">>, <<"k", "u", "z", "a", "~">>, <<"S", "u", "\\", "z", "a", "~">>})
            THEN <<add(UP("3.155"))>>
            ELSE IF has_u(d, <<"a", "S", "U", "~">>)
            THEN <<add_with(UP("3.156"), mark_as("nit"))>>
            ELSE <<>>
      [] krt = Unadi(<<"k", "s", "u">>) ->
            IF has_u(d, <<"i", "z", "u", "~">>) THEN <<add(UP("3.157"))>> ELSE <<>>

\* The upadesha that the arm of UP 4.2 asks of the dhatu, for each of its
\* affixes but isan.
UP_4_2 ==
    { <<Unadi(<<"k", "a", "t", "n", "i", "c">>), <<"f", "\\">>>>, <<Unadi(<<"y", "a", "t", "u", "c">>), <<"t", "a", "n", "u", "~", "^">>>>, <<Unadi(<<"a", "l", "i", "c">>), <<"a", "n", "j", "U", "~">>>>,
      <<Unadi(<<"i", "z", "W", "u", "c">>), <<"v", "a", "n", "a", "~">>>>, <<Unadi(<<"i", "z", "W", "a", "c">>), <<"a", "n", "j", "U", "~">>>>, <<Unadi(<<"s", "y", "a", "n">>), <<"m", "a", "d", "I", "~">>>>,
      <<Unadi(<<"i", "T", "i", "n">>), <<"a", "t", "a", "~">>>>, <<Unadi(<<"u", "l", "i">>), <<"a", "n", "g", "a">>>>, <<Unadi(<<"a", "s", "a">>), <<"k", "u", "\\">>>>, <<Unadi(<<"A", "s", "a">>), <<"y", "u">>>>,
      <<Unadi(<<"A", "n", "u", "k">>), <<"k", "f", "S", "a", "~">>>> }

\* The affixes of the arm of UP 4.2.
UP_4_2_KRTS == {pair[1] : pair \in UP_4_2} \cup {Unadi(<<"i", "s", "a", "n">>)}

\* The arms for katnic ... alac, and the default arm.
unadi_arm_4(k, krt, i, nau, d) ==
    CASE krt \in UP_4_2_KRTS ->
            IF krt = Unadi(<<"i", "s", "a", "n">>)
            THEN IF has_u(d, <<"f", "\\">>) /\ p_has_u(k.p, i + 2, <<"R", "i", "c">>)
                 THEN <<add(UP("4.2"))>> ELSE <<>>
            ELSE IF <<krt, d.u>> \in UP_4_2 THEN <<add(UP("4.2"))>> ELSE <<>>
      [] krt = Unadi(<<"i", "n", "i">>) ->
            IF has_u(d, <<"g", "a", "\\", "m", "x", "~">>)
            THEN IF has_upapada(k, <<"A", "N">>)
                 THEN <<add_with(UP("4.7"), mark_as("Rit"))>>
                 ELSE <<add(UP("4.6"))>>
            ELSE IF has_u(d, <<"B", "U">>)
            THEN <<add_with(UP("4.8"), mark_as("Rit"))>>
            ELSE IF has_u(d, <<"z", "W", "A", "\\">>)
            THEN IF has_upapada(k, <<"p", "r", "a">>)
                 THEN <<add_with(UP("4.9"), mark_as("Rit"))>>
                 ELSE <<add_with(UP("4.10"), mark_as("kit"))>>
            ELSE IF has_u(d, <<"m", "a", "T", "i", "~">>)
            THEN <<add_with(UP("4.11"), mark_as("kit"))>>
            ELSE IF has_u(d, <<"p", "a", "t", "x", "~">>)
            THEN <<add_with(UP("4.12"), set_antya(<<"T">>))>>
            ELSE <<>>
      [] krt = Unadi(<<"k", "v", "i", "n">>) ->
            IF has_u_in(d, {<<"j", "F">>, <<"S", "F", "Y">>, <<"s", "t", "F", "Y">>, <<"j", "A", "g", "f">>}) THEN <<add(UP("4.54"))>> ELSE <<>>
      [] krt = Unadi(<<"a", "r", "u">>) ->
            IF has_text(d, <<"f">>)
            THEN <<add(UP("4.79"))>>
            ELSE IF has_text(d, <<"k", "u", "w">>)
            THEN <<add_with(UP("4.80"), mark_as("kit"))>>
            ELSE <<>>
      [] krt = Unadi(<<"a", "b", "a", "c">>) ->
            IF has_text_in(d, {<<"k", "f">>, <<"k", "a", "d">>, <<"k", "a", "q">>, <<"k", "a", "w">>})
            THEN (IF has_text(d, <<"k", "a", "d">>)
                  THEN <<optional_add_with(UP("4.82"), mark_as("Rit"))>>
                  ELSE <<>>) \o <<add(UP("4.81"))>>
            ELSE <<>>
      [] krt = Unadi(<<"a", "m", "a">>) ->
            IF has_text_in(d, {<<"k", "a", "l">>, <<"k", "a", "r", "d">>}) THEN <<add(UP("4.83"))>> ELSE <<>>
      [] krt = Unadi(<<"k", "i", "n", "d", "a", "c">>) ->
            IF has_text_in(d, {<<"k", "u", "R">>, <<"p", "u", "l">>}) THEN <<add(UP("4.84"))>> ELSE <<>>
      [] krt = Unadi(<<"i", "n">>) -> <<add(UP("4.117"))>>
      [] krt = Unadi(<<"m", "a", "n", "i", "n">>) -> <<add(UP("4.144"))>>
      [] krt = Unadi(<<"z", "w", "r", "a", "n">>) -> <<add(UP("4.158"))>>
      [] krt = Unadi(<<"a", "s", "u", "n">>) ->
            IF has_text(d, <<"r", "a", "p">>)
            THEN <<add_with(UP("4.189"), set_upadha_at(i, <<"e">>))>>
            ELSE <<add(UP("4.188"))>>
      [] krt = Unadi(<<"a", "m", "a", "c">>) ->
            IF has_u(d, <<"p", "r", "a", "T", "a", "~", "\\">>)
            THEN <<add(UP("5.68"))>>
            ELSE IF has_u(d, <<"c", "a", "r", "a", "~">>)
            THEN <<add(UP("5.69"))>>
            ELSE <<>>
      [] krt = Unadi(<<"a", "l", "a", "c">>) /\ has_u(d, <<"m", "a", "g", "i", "~">>) -> <<add(UP("5.70"))>>
      [] OTHER -> <<>>

ARM_1 == {Unadi(<<"u", "R">>), Unadi(<<"Y", "u", "R">>), Unadi(<<"u">>), Unadi(<<"w", "i", "z", "a", "c">>), Unadi(<<"t", "u", "n">>), Unadi(<<"k", "a", "t", "u">>), Unadi(<<"q", "a">>), Unadi(<<"A", "l", "a", "Y">>), Unadi(<<"k", "A", "l", "a", "n">>)}

ARM_2 == {Unadi(<<"m", "a", "n">>), Unadi(<<"m", "a", "k">>), Unadi(<<"e", "R", "u">>), Unadi(<<"k", "T", "a", "n">>), Unadi(<<"s", "T", "a", "n">>), Unadi(<<"k", "r", "a", "n">>), Unadi(<<"i", "s", "i">>), Unadi(<<"u", "s", "i">>)}

ARM_3 == {Unadi(<<"i", "t", "n", "u", "c">>), Unadi(<<"k", "a", "n">>), Unadi(<<"s", "a">>), Unadi(<<"s", "a", "r", "a">>), Unadi(<<"t", "a", "n">>), Unadi(<<"A", "y", "y", "a">>), Unadi(<<"J", "a", "c">>), Unadi(<<"a", "p", "a">>), Unadi(<<"k", "a", "p", "a", "n">>), Unadi(<<"t", "i", "k", "a", "n">>),
          Unadi(<<"k", "s", "i">>), Unadi(<<"k", "s", "u">>)}

\* The match of try_add_unadi: the calls that the arm for krt makes, given
\* the KrtPrakriya k, the index i of the first dhatu, nau and the dhatu d.
unadi_arm(k, krt, i, nau, d) ==
    IF krt \in ARM_1 THEN unadi_arm_1(k, krt, i, nau, d)
    ELSE IF krt \in ARM_2 THEN unadi_arm_2(k, krt, i, nau, d)
    ELSE IF krt \in ARM_3 THEN unadi_arm_3(k, krt, i, nau, d)
    ELSE unadi_arm_4(k, krt, i, nau, d)

\* Makes one call of an arm on the KrtPrakriya; a panic ends the calls.
arm_call(r, krt, c) ==
    IF r.panic THEN r
    ELSE IF c.optional
    THEN optional_try_add_with(r.k, c.rule, krt, c.func)
    ELSE try_add_with(r.k, c.rule, krt, c.func)

\* Makes the calls of an arm in order.
RECURSIVE arm_calls(_, _, _)
arm_calls(r, krt, cs) ==
    IF cs = <<>> THEN r ELSE arm_calls(arm_call(r, krt, Head(cs)), krt, Tail(cs))

\* A dispatch without the hack.
is_nin_hack_off(p, i) == FALSE

\* A guard that tests for Ric where the hack tests for RiN.
is_nin_hack_ric(p, i) == p_has_u(p, i + 1, <<"R", "i", "c">>)

\* The guard of the hack that keeps kamu~ + RiN from taking an unadi affix.
is_nin_hack(p, i) == p_has_u(p, i + 1, <<"R", "i", "N">>)

\* A dispatch that ends with Some(true) whatever the rules did.
try_add_unadi_some_true(p, krt) ==
    IF ~has_dhatu(p) \/ is_nin_hack(p, find_first_dhatu(p))
    THEN [p |-> p, some |-> FALSE, added |-> FALSE, panic |-> FALSE]
    ELSE LET i == find_first_dhatu(p)
             k0 == KrtPrakriya_new(p, krt)
             r == arm_calls([k |-> k0, ret |-> FALSE, panic |-> FALSE], krt,
                            unadi_arm(k0, krt, i, p_has_u(p, i + 1, <<"R", "i", "c">>), dhatu(k0)))
         IN  [p |-> r.k.p, some |-> TRUE, added |-> TRUE, panic |-> r.panic]

\* try_add_unadi: some |-> FALSE is None; otherwise added is the value in
\* Some(..).
try_add_unadi(p, krt) ==
    IF ~has_dhatu(p)
    THEN [p |-> p, some |-> FALSE, added |-> FALSE, panic |-> FALSE]
    ELSE LET i == find_first_dhatu(p)
         IN  IF is_nin_hack(p, i)
             THEN [p |-> p, some |-> FALSE, added |-> FALSE, panic |-> FALSE]
             ELSE LET nau == p_has_u(p, i + 1, <<"R", "i", "c">>)
                      k0 == KrtPrakriya_new(p, krt)
                      r == arm_calls([k |-> k0, ret |-> FALSE, panic |-> FALSE], krt,
                                     unadi_arm(k0, krt, i, nau, dhatu(k0)))
                  IN  [p |-> r.k.p, some |-> TRUE, added |-> r.k.has_krt,
                       panic |-> r.panic]

\* A run that reports is_some() of the Option where run reports
\* unwrap_or(false).
unadi_run_is_some(p, krt) ==
    IF krt.kind = "Unadi"
    THEN LET r == try_add_unadi(p, krt)
         IN  [p |-> r.p, some |-> r.some, ret |-> r.some, panic |-> r.panic]
    ELSE [p |-> p, some |-> FALSE, ret |-> FALSE, panic |-> FALSE]

\* unadi_sutras::run
unadi_run(p, krt) ==
    IF krt.kind = "Unadi"
    THEN LET r == try_add_unadi(p, krt)
         IN  [p |-> r.p, some |-> r.some, ret |-> IF r.some THEN r.added ELSE FALSE,
              panic |-> r.panic]
    ELSE [p |-> p, some |-> FALSE, ret |-> FALSE, panic |-> FALSE]

-----------------------------------------------------------------------------
(* The inputs of the KrtPrakriya state machine.                            *)

\* KrtArtha values (crate::args).
KRT_ARTHAS == {"Bhava", "Karta"}

\* The rules that the explored calls cite.
RULES == {"3.1.124", "3.1.133"}

\* The optional rules that the caller's configuration declines.
DECLINED == {"3.1.124"}

\* The krt-pratyayas that the explored calls name.
KRTS == {Base(<<"R", "y", "a", "t">>), Base(<<"R", "v", "u", "l">>)}

\* The substitute that the explored nipatana calls give.
NIPATANA == <<"k", "A", "r", "y", "a">>

\* The closures that the explored calls pass on the KrtPrakriya k: one that
\* edits the dhatu when there is one, and else one that tags the affix.
FUNCS(k) == IF has_dhatu(k.p) THEN {set_antya_at(k.i_dhatu, <<"l">>)} ELSE {mark_as("kit")}

Dhatu(u, text) == [u |-> u, text |-> text, tags |-> {"Dhatu"}]

Upasarga(u, text) == [u |-> u, text |-> text, tags |-> {"Upasarga"}]

Lakara(s) == [u |-> s, text |-> s, tags |-> {"Pratyaya", "La"}]

Sanadi(u, text) == [u |-> u, text |-> text, tags |-> {"Pratyaya", "Sanadi"}]

Agama(u, text) == [u |-> u, text |-> text, tags |-> {"Agama"}]

\* The term sequences a KrtPrakriya is created on.
START_TERMS ==
    { <<>>,
      <<Dhatu(<<"q", "u", "k", "f", "\\", "Y">>, <<"k", "f">>)>>,
      <<Upasarga(<<"p", "r", "a">>, <<"p", "r", "a">>), Dhatu(<<"t", "F">>, <<"t", "F">>)>>,
      <<Dhatu(<<"B", "U">>, <<"B", "U">>), Lakara(<<"l", "a", "~", "w">>)>> }

Config(log_steps, is_chandasi, declined) ==
    [log_steps |-> log_steps, is_chandasi |-> is_chandasi, declined |-> declined]

Prakriya(terms, artha, config) ==
    [terms |-> terms, steps |-> <<>>, rule_choices |-> <<>>, artha |-> artha,
     config |-> config]

-----------------------------------------------------------------------------
(* The KrtPrakriya state machine: one action per method call.  A closure   *)
(* given to with_context is a sequence of further calls: entering and      *)
(* leaving it are the two steps of with_context.                           *)

\* The record of the latest call: its name, its arguments, what it returned
\* (how: "true", "false", "panic", or the course with_context took), and the
\* KrtPrakriya and the context stack it was made on.
NoCall(k) == [op |-> "new", rule |-> None, krt |-> NoKrt, func |-> f_none,
              artha |-> None, how |-> None, pre |-> k, pre_ctx |-> <<>>]

Call(op, rule, krt, func, artha, how) ==
    [op |-> op, rule |-> rule, krt |-> krt, func |-> func, artha |-> artha,
     how |-> how, pre |-> kp, pre_ctx |-> ctx]

NoUnadiCall == [done |-> FALSE]

NoHarnessRun == [pc |-> "none"]

Init ==
    /\ \E terms \in START_TERMS, artha \in KRT_ARTHAS \cup {None},
          log_steps \in BOOLEAN, krt \in KRTS :
          kp = KrtPrakriya_new(Prakriya(terms, artha, Config(log_steps, FALSE, DECLINED)), krt)
    /\ ctx = <<>>
    /\ last = NoCall(kp)
    /\ nops = 0
    /\ panicked = FALSE
    /\ ucall = NoUnadiCall
    /\ hs = NoHarnessRun

CanCall == nops < MaxOps /\ ~panicked

\* The effect of a call that returns r = [k, ret, panic].
Return(op, rule, krt, func, r) ==
    /\ kp' = IF r.panic THEN kp ELSE r.k
    /\ panicked' = r.panic
    /\ last' = Call(op, rule, krt, func, None,
                    IF r.panic THEN "panic" ELSE IF r.ret THEN "true" ELSE "false")
    /\ nops' = nops + 1
    /\ UNCHANGED <<ctx, ucall, hs>>

TryAdd ==
    /\ CanCall
    /\ \E rule \in RULES, krt \in KRTS :
          Return("try_add", rule, krt, f_none, try_add(kp, rule, krt))

TryAddWith ==
    /\ CanCall
    /\ \E rule \in RULES, krt \in KRTS, func \in FUNCS(kp) :
          Return("try_add_with", rule, krt, func, try_add_with(kp, rule, krt, func))

\* The caller passes the index of the lakara.
TryReplaceLakara ==
    /\ CanCall
    /\ \E rule \in RULES, krt \in KRTS, i_lakara \in 0..(Len(kp.p.terms) - 1) :
          /\ "La" \in p_get(kp.p, i_lakara).tags
          /\ Return("try_replace_lakara", rule, krt, f_none,
                    try_replace_lakara(kp, rule, i_lakara, krt))

DoNipatana ==
    /\ CanCall
    /\ \E rule \in RULES :
          Return("do_nipatana", rule, NoKrt, f_none, do_nipatana(kp, rule, NIPATANA))

OptionalDoNipatana ==
    /\ CanCall
    /\ \E rule \in RULES :
          Return("optional_do_nipatana", rule, NoKrt, f_none,
                 optional_do_nipatana(kp, rule, NIPATANA))

OptionalTryAddWith ==
    /\ CanCall
    /\ \E rule \in RULES, krt \in KRTS, func \in FUNCS(kp) :
          Return("optional_try_add_with", rule, krt, func,
                 optional_try_add_with(kp, rule, krt, func))

OptionalTryAdd ==
    /\ CanCall
    /\ \E rule \in RULES, krt \in KRTS :
          Return("optional_try_add", rule, krt, f_none, optional_try_add(kp, rule, krt))

\* with_context, up to the call of the closure.  On an artha mismatch the
\* call returns at once ("skipped").  Otherwise the context is pushed; the
\* closure runs ("entered") unless a krt has been added, and then the context
\* is popped at once ("not_run").
WithContextEnter ==
    /\ CanCall
    /\ Len(ctx) < MaxDepth
    /\ \E rule_artha \in KRT_ARTHAS :
          /\ last' = Call("with_context", None, NoKrt, f_none, rule_artha,
                          IF artha_mismatch(kp.p.artha, rule_artha) THEN "skipped"
                          ELSE IF kp.has_krt THEN "not_run" ELSE "entered")
          /\ IF artha_mismatch(kp.p.artha, rule_artha) \/ kp.has_krt
             THEN UNCHANGED <<kp, ctx>>
             ELSE /\ ctx' = Append(ctx, [old_artha |-> kp.rule_artha,
                                         old_match |-> kp.had_match])
                  /\ kp' = [kp EXCEPT !.rule_artha = rule_artha, !.had_match = FALSE]
    /\ nops' = nops + 1
    /\ UNCHANGED <<panicked, ucall, hs>>

\* A pop that restores the artha and leaves had_match as the closure set it.
with_context_pop_keeps_match(k, saved) ==
    [k EXCEPT !.rule_artha = saved.old_artha]

\* "Pop the closure context": the two assignments that end with_context.
with_context_pop(k, saved) ==
    [k EXCEPT !.rule_artha = saved.old_artha, !.had_match = saved.old_match]

\* with_context, from the return of the closure: the context is popped.
WithContextExit ==
    /\ ~panicked
    /\ Len(ctx) > 0
    /\ kp' = with_context_pop(kp, ctx[Len(ctx)])
    /\ ctx' = SubSeq(ctx, 1, Len(ctx) - 1)
    /\ last' = Call("with_context_exit", None, NoKrt, f_none, None, "popped")
    /\ UNCHANGED <<nops, panicked, ucall, hs>>

\* KrtPrakriya::dhatu
GetDhatu ==
    /\ CanCall
    /\ panicked' = dhatu_panics(kp)
    /\ last' = Call("dhatu", None, NoKrt, f_none, None,
                    IF dhatu_panics(kp) THEN "panic" ELSE "true")
    /\ nops' = nops + 1
    /\ UNCHANGED <<kp, ctx, ucall, hs>>

\* KrtPrakriya::dhatu_end
GetDhatuEnd ==
    /\ CanCall
    /\ panicked' = dhatu_end_panics(kp)
    /\ last' = Call("dhatu_end", None, NoKrt, f_none, None,
                    IF dhatu_end_panics(kp) THEN "panic" ELSE "true")
    /\ nops' = nops + 1
    /\ UNCHANGED <<kp, ctx, ucall, hs>>

Next ==
    \/ TryAdd
    \/ TryAddWith
    \/ TryReplaceLakara
    \/ DoNipatana
    \/ OptionalDoNipatana
    \/ OptionalTryAddWith
    \/ OptionalTryAdd
    \/ WithContextEnter
    \/ WithContextExit
    \/ GetDhatu
    \/ GetDhatuEnd

Spec == Init /\ [][Next]_vars


-----------------------------------------------------------------------------
(* The inputs of the Unadipatha dispatch.                                  *)

\* The dhatus that requests are made on, as (aupadeshika, text): those that the
\* rules name by their aupadeshika, then further ones for the rules that test
\* the text.
DHATUS ==
    { <<<<"q", "u", "k", "f", "\\", "Y">>, <<"k", "f">>>>, <<<<"v", "A", "\\">>, <<"v", "A">>>>,
      <<<<"p", "A", "\\">>, <<"p", "A">>>>, <<<<"j", "i", "\\">>, <<"j", "i">>>>,
      <<<<"q", "u", "m", "i", "\\", "Y">>, <<"m", "i">>>>, <<<<"z", "v", "a", "d", "a", "~", "\\">>, <<"s", "v", "a", "d">>>>,
      <<<<"s", "A", "\\", "D", "a", "~">>, <<"s", "A", "D">>>>, <<<<"a", "S", "U", "~", "\\">>, <<"a", "S">>>>,
      <<<<"i", "\\", "R">>, <<"i">>>>, <<<<"t", "F">>, <<"t", "F">>>>, <<<<"a", "v", "a", "~">>, <<"a", "v">>>>,
      <<<<"m", "a", "h", "a", "~">>, <<"m", "a", "h">>>>, <<<<"z", "i", "\\", "Y">>, <<"s", "i">>>>,
      <<<<"t", "a", "n", "u", "~", "^">>, <<"t", "a", "n">>>>, <<<<"g", "a", "\\", "m", "x", "~">>, <<"g", "a", "m">>>>,
      <<<<"m", "a", "s", "I", "~">>, <<"m", "a", "s">>>>, <<<<"z", "a", "c", "a", "~", "\\">>, <<"s", "a", "c">>>>,
      <<<<"q", "u", "D", "A", "\\", "Y">>, <<"D", "A">>>>, <<<<"k", "r", "u", "\\", "S", "a", "~">>, <<"k", "r", "u", "S">>>>,
      <<<<"h", "a", "\\", "n", "a", "~">>, <<"h", "a", "n">>>>, <<<<"k", "u", "z", "a", "~">>, <<"k", "u", "z">>>>,
      <<<<"R", "I", "\\", "Y">>, <<"n", "I">>>>, <<<<"a", "m", "a", "~">>, <<"a", "m">>>>,
      <<<<"k", "A", "S", "f", "~">>, <<"k", "A", "S">>>>, <<<<"a", "r", "c", "a", "~">>, <<"a", "r", "c">>>>,
      <<<<"I", "~", "S", "u", "c", "i", "~", "^", "r">>, <<"S", "u", "c">>>>, <<<<"h", "u", "\\">>, <<"h", "u">>>>,
      <<<<"s", "f", "\\", "p", "x", "~">>, <<"s", "f", "p">>>>, <<<<"C", "a", "d", "a", "~">>, <<"C", "a", "d">>>>,
      <<<<"C", "a", "r", "d", "a", "~">>, <<"C", "a", "r", "d">>>>, <<<<"j", "a", "n", "I", "~", "\\">>, <<"j", "a", "n">>>>,
      <<<<"c", "a", "\\", "k", "z", "i", "~", "\\", "N">>, <<"c", "a", "k", "z">>>>, <<<<"s", "t", "a", "n", "a">>, <<"s", "t", "a", "n">>>>,
      <<<<"h", "f", "z", "a", "~">>, <<"h", "f", "z">>>>, <<<<"g", "a", "d", "a">>, <<"g", "a", "d">>>>,
      <<<<"m", "a", "d", "a", "~">>, <<"m", "a", "d">>>>, <<<<"s", "p", "f", "h", "a">>, <<"s", "p", "f", "h">>>>,
      <<<<"g", "f", "h", "a">>, <<"g", "f", "h">>>>, <<<<"Y", "i", "B", "I", "\\">>, <<"B", "I">>>>,
      <<<<"k", "E", "\\">>, <<"k", "E">>>>, <<<<"S", "a", "l", "a", "~">>, <<"S", "a", "l">>>>,
      <<<<"a", "t", "a", "~">>, <<"a", "t">>>>, <<<<"m", "a", "r", "c", "a", "~">>, <<"m", "a", "r", "c">>>>,
      <<<<"v", "F">>, <<"v", "F">>>>, <<<<"v", "F", "Y">>, <<"v", "F">>>>,
      <<<<"v", "a", "d", "a", "~">>, <<"v", "a", "d">>>>, <<<<"k", "a", "m", "u", "~", "\\">>, <<"k", "a", "m">>>>,
      <<<<"k", "a", "z", "a", "~">>, <<"k", "a", "z">>>>, <<<<"h", "a", "s", "e", "~">>, <<"h", "a", "s">>>>,
      <<<<"m", "f", "\\", "N">>, <<"m", "f">>>>, <<<<"g", "F">>, <<"g", "F">>>>,
      <<<<"d", "a", "m", "u", "~">>, <<"d", "a", "m">>>>, <<<<"l", "U", "Y">>, <<"l", "U">>>>,
      <<<<"p", "U", "Y">>, <<"p", "U">>>>, <<<<"D", "u", "r", "v", "I", "~">>, <<"D", "u", "r", "v">>>>,
      <<<<"S", "r", "u", "\\">>, <<"S", "r", "u">>>>, <<<<"d", "a", "k", "z", "a", "~", "\\">>, <<"d", "a", "k", "z">>>>,
      <<<<"p", "l", "u", "z", "a", "~">>, <<"p", "l", "u", "z">>>>, <<<<"S", "u", "\\", "z", "a", "~">>, <<"S", "u", "z">>>>,
      <<<<"a", "S", "U", "~">>, <<"a", "S">>>>, <<<<"i", "z", "u", "~">>, <<"i", "z">>>>, <<<<"f", "\\">>, <<"f">>>>,
      <<<<"a", "n", "j", "U", "~">>, <<"a", "n", "j">>>>, <<<<"v", "a", "n", "a", "~">>, <<"v", "a", "n">>>>,
      <<<<"m", "a", "d", "I", "~">>, <<"m", "a", "d">>>>, <<<<"a", "n", "g", "a">>, <<"a", "n", "g">>>>,
      <<<<"k", "u", "\\">>, <<"k", "u">>>>, <<<<"y", "u">>, <<"y", "u">>>>,
      <<<<"k", "f", "S", "a", "~">>, <<"k", "f", "S">>>>, <<<<"B", "U">>, <<"B", "U">>>>,
      <<<<"z", "W", "A", "\\">>, <<"s", "T", "A">>>>, <<<<"m", "a", "T", "i", "~">>, <<"m", "a", "n", "T">>>>,
      <<<<"p", "a", "t", "x", "~">>, <<"p", "a", "t">>>>, <<<<"j", "F">>, <<"j", "F">>>>,
      <<<<"S", "F", "Y">>, <<"S", "F">>>>, <<<<"s", "t", "F", "Y">>, <<"s", "t", "F">>>>,
      <<<<"j", "A", "g", "f">>, <<"j", "A", "g", "f">>>>, <<<<"p", "r", "a", "T", "a", "~", "\\">>, <<"p", "r", "a", "T">>>>,
      <<<<"c", "a", "r", "a", "~">>, <<"c", "a", "r">>>>, <<<<"m", "a", "g", "i", "~">>, <<"m", "a", "N", "g">>>>,
      <<<<"d", "F">>, <<"d", "F">>>>, <<<<"z", "a", "R", "a", "~">>, <<"s", "a", "n">>>>,
      <<<<"c", "a", "w", "e", "~">>, <<"c", "a", "w">>>>, <<<<"q", "u", "B", "f", "\\", "Y">>, <<"B", "f">>>>,
      <<<<"S", "I", "N">>, <<"S", "I">>>>, <<<<"t", "s", "a", "r", "a", "~">>, <<"t", "s", "a", "r">>>>,
      <<<<"D", "a", "n", "a", "~">>, <<"D", "a", "n">>>>, <<<<"w", "u", "m", "a", "\\", "s", "j", "o", "~">>, <<"m", "a", "s", "j">>>>,
      <<<<"S", "F">>, <<"S", "F">>>>, <<<<"s", "v", "f">>, <<"s", "v", "f">>>>,
      <<<<"z", "R", "i", "h", "a", "~">>, <<"s", "n", "i", "h">>>>, <<<<"t", "r", "a", "p", "U", "~", "\\", "z">>, <<"t", "r", "a", "p">>>>,
      <<<<"a", "s", "a", "~">>, <<"a", "s">>>>, <<<<"v", "a", "s", "a", "~">>, <<"v", "a", "s">>>>,
      <<<<"k", "l", "i", "d", "U", "~">>, <<"k", "l", "i", "d">>>>, <<<<"b", "a", "\\", "n", "D", "a", "~">>, <<"b", "a", "n", "D">>>>,
      <<<<"m", "a", "\\", "n", "a", "~", "\\">>, <<"m", "a", "n">>>>, <<<<"s", "y", "a", "n", "d", "U", "~", "\\">>, <<"s", "y", "a", "n", "d">>>>,
      <<<<"u", "n", "d", "I", "~">>, <<"u", "n", "d">>>>, <<<<"I", "z", "a", "~", "\\">>, <<"I", "z">>>>,
      <<<<"s", "k", "a", "\\", "n", "d", "i", "~", "r">>, <<"s", "k", "a", "n", "d">>>>, <<<<"s", "f", "\\", "j", "a", "~">>, <<"s", "f", "j">>>>,
      <<<<"k", "f", "t", "I", "~">>, <<"k", "f", "t">>>>, <<<<"y", "A", "\\">>, <<"y", "A">>>>,
      <<<<"c", "a", "q", "i", "~", "\\">>, <<"c", "a", "R", "q">>>>, <<<<"t", "a", "m", "u", "~">>, <<"t", "a", "m">>>>,
      <<<<"v", "i", "\\", "S", "a", "~">>, <<"v", "i", "S">>>>, <<<<"b", "i", "q", "a", "~">>, <<"b", "i", "q">>>>,
      <<<<"m", "f", "R", "a", "~">>, <<"m", "f", "R">>>>, <<<<"k", "u", "l", "a", "~">>, <<"k", "u", "l">>>>,
      <<<<"k", "a", "p", "i", "~", "\\">>, <<"k", "a", "p">>>>, <<<<"p", "a", "l", "a", "~">>, <<"p", "a", "l">>>>,
      <<<<"p", "a", "c", "i", "~", "\\">>, <<"p", "a", "Y", "c">>>>, <<<<"g", "r", "a", "s", "u", "~", "\\">>, <<"g", "r", "a", "s">>>>,
      <<<<"z", "i", "v", "u", "~">>, <<"s", "i", "v">>>>, <<<<"y", "u", "\\", "D", "a", "~", "\\">>, <<"y", "u", "D">>>>,
      <<<<"Y", "i", "i", "n", "D", "I", "~", "\\">>, <<"i", "n", "D">>>>, <<<<"d", "a", "s", "u", "~">>, <<"d", "a", "s">>>>,
      <<<<"S", "y", "E", "\\", "N">>, <<"S", "y", "E">>>>, <<<<"D", "U", "Y">>, <<"D", "U">>>>,
      <<<<"z", "U", "N">>, <<"s", "U">>>>, <<<<"y", "u", "\\", "j", "i", "~", "^", "r">>, <<"y", "u", "j">>>>,
      <<<<"r", "u", "c", "a", "~", "\\">>, <<"r", "u", "c">>>>, <<<<"t", "i", "j", "a", "~", "\\">>, <<"t", "i", "j">>>>,
      <<<<"G", "f", "\\">>, <<"G", "f">>>>, <<<<"h", "f", "\\", "Y">>, <<"h", "f">>>>,
      <<<<"u", "z", "a", "~">>, <<"u", "z">>>>, <<<<"g", "A", "\\", "N">>, <<"g", "A">>>>,
      <<<<"s", "f", "\\">>, <<"s", "f">>>>, <<<<"z", "u", "\\", "Y">>, <<"s", "u">>>>,
      <<<<"g", "f", "D", "u", "~">>, <<"g", "f", "D">>>>, <<<<"p", "F">>, <<"p", "F">>>>,
      <<<<"q", "u", "v", "a", "\\", "p", "a", "~", "^">>, <<"v", "a", "p">>>>, <<<<"y", "a", "\\", "j", "a", "~", "^">>, <<"y", "a", "j">>>>,
      <<<<"t", "a", "\\", "p", "a", "~">>, <<"t", "a", "p">>>>, <<<<"m", "u", "\\", "h", "a", "~">>, <<"m", "u", "h">>>>,
      <<<<"r", "u", "h", "a", "~">>, <<"r", "u", "h">>>>, <<<<"w", "u", "n", "a", "d", "i", "~">>, <<"n", "a", "n", "d">>>>,
      <<<<"j", "I", "v", "a", "~">>, <<"j", "I", "v">>>>, <<<<"a", "n", "a", "~">>, <<"a", "n">>>>,
      <<<<"v", "a", "\\", "h", "a", "~", "^">>, <<"v", "a", "h">>>>, <<<<"B", "A", "s", "f", "~", "\\">>, <<"B", "A", "s">>>>,
      <<<<"g", "a", "q", "i", "~">>, <<"g", "a", "R", "q">>>>, <<<<"m", "a", "q", "i", "~", "\\">>, <<"m", "a", "R", "q">>>>,
      <<<<"k", "u", "w", "a", "~">>, <<"k", "u", "w">>>>, <<<<"d", "a", "l", "a", "~">>, <<"d", "a", "l">>>>,
      <<<<"k", "a", "c", "a", "~", "\\">>, <<"k", "a", "c">>>>, <<<<"K", "a", "j", "a", "~">>, <<"K", "a", "j">>>>,
      <<<<"k", "v", "a", "R", "a", "~">>, <<"k", "v", "a", "R">>>>, <<<<"v", "f", "t", "u", "~", "\\">>, <<"v", "f", "t">>>>,
      <<<<"B", "i", "\\", "d", "i", "~", "^", "r">>, <<"B", "i", "d">>>>, <<<<"l", "a", "t", "a", "~">>, <<"l", "a", "t">>>>,
      <<<<"k", "a", "d", "a", "~">>, <<"k", "a", "d">>>>, <<<<"k", "a", "q", "a", "~">>, <<"k", "a", "q">>>>,
      <<<<"k", "a", "w", "e", "~">>, <<"k", "a", "w">>>>, <<<<"k", "a", "l", "a", "~", "\\">>, <<"k", "a", "l">>>>,
      <<<<"k", "a", "r", "d", "a", "~">>, <<"k", "a", "r", "d">>>>, <<<<"k", "u", "R", "a", "~">>, <<"k", "u", "R">>>>,
      <<<<"p", "u", "l", "a", "~">>, <<"p", "u", "l">>>>, <<<<"r", "a", "p", "a", "~">>, <<"r", "a", "p">>>>,
      <<<<"q", "u", "p", "a", "\\", "c", "a", "~", "^", "z">>, <<"p", "a", "c">>>>, <<<<"g", "a", "\\", "m", "x", "~">>, <<"g", "a", "c", "C">>>> }

\* The unadi affixes of the match, and a krt that is no unadi affix.
UNADIS == ARM_1 \cup ARM_2 \cup ARM_3 \cup UP_4_2_KRTS
            \cup {Unadi(<<"i", "n", "i">>), Unadi(<<"k", "v", "i", "n">>), Unadi(<<"a", "r", "u">>), Unadi(<<"a", "b", "a", "c">>), Unadi(<<"a", "m", "a">>), Unadi(<<"k", "i", "n", "d", "a", "c">>), Unadi(<<"i", "n">>), Unadi(<<"m", "a", "n", "i", "n">>), Unadi(<<"z", "w", "r", "a", "n">>),
                  Unadi(<<"a", "s", "u", "n">>), Unadi(<<"a", "m", "a", "c">>), Unadi(<<"a", "l", "a", "c">>)}

UNADI_KRTS == UNADIS \cup {Base(<<"k", "t", "a">>)}

\* The dhatus that requests are also made on with other terms around them:
\* those whose rules look at the terms around the dhatu or edit the dhatu.
IN_CONTEXT ==
    {<<"q", "u", "k", "f", "\\", "Y">>, <<"B", "U">>, <<"g", "a", "\\", "m", "x", "~">>, <<"z", "W", "A", "\\">>, <<"a", "n", "a", "~">>, <<"s", "t", "a", "n", "a">>, <<"h", "f", "z", "a", "~">>, <<"g", "a", "d", "a">>,
     <<"m", "a", "d", "a", "~">>, <<"s", "p", "f", "h", "a">>, <<"g", "f", "h", "a">>, <<"f", "\\">>, <<"k", "a", "m", "u", "~", "\\">>, <<"k", "a", "d", "a", "~">>, <<"t", "F">>, <<"i", "\\", "R">>,
     <<"s", "y", "a", "n", "d", "U", "~", "\\">>, <<"g", "r", "a", "s", "u", "~", "\\">>, <<"p", "a", "t", "x", "~">>, <<"I", "z", "a", "~", "\\">>, <<"r", "a", "p", "a", "~">>}

\* What may stand before the dhatu: nothing, the upasarga pra, and AN
\* before ga\mx~.
Prefixes(u) ==
    {<<>>}
        \cup (IF u \in IN_CONTEXT THEN {<<Upasarga(<<"p", "r", "a">>, <<"p", "r", "a">>)>>} ELSE {})
        \cup (IF u = <<"g", "a", "\\", "m", "x", "~">> THEN {<<Upasarga(<<"A", "N">>, <<"A">>)>>} ELSE {})

\* What may stand after the dhatu: nothing, the causative Ric (after f\ with
\* the augment pu~k), and RiN after kamu~\.
Suffixes(u) ==
    {<<>>}
        \cup (IF u \in IN_CONTEXT THEN {<<Sanadi(<<"R", "i", "c">>, <<"i">>)>>} ELSE {})
        \cup (IF u = <<"k", "a", "m", "u", "~", "\\">> THEN {<<Sanadi(<<"R", "i", "N">>, <<"i">>)>>} ELSE {})
        \cup (IF u = <<"f", "\\">> THEN {<<Agama(<<"p", "u", "~", "k">>, <<"p">>), Sanadi(<<"R", "i", "c">>, <<"i">>)>>} ELSE {})

\* The term sequences that requests are made on a dhatu d.
TermsOf(d) ==
    {pre \o <<Dhatu(d[1], d[2])>> \o suf : pre \in Prefixes(d[1]), suf \in Suffixes(d[1])}

\* The term sequences that requests are made on: a dhatu in its context, and
\* sequences without a dhatu.
UNADI_TERMS ==
    UNION {TermsOf(d) : d \in DHATUS} \cup {<<>>, <<Upasarga(<<"p", "r", "a">>, <<"p", "r", "a">>)>>}

\* The configurations that requests are made under: the default one, one in
\* chandas mode that declines the optional rule UP 4.82, and one that
\* suppresses the step log.
UNADI_CONFIGS ==
    {Config(TRUE, FALSE, {}), Config(TRUE, TRUE, {UP("4.82")}), Config(FALSE, FALSE, {})}

-----------------------------------------------------------------------------------------------------------------------------------------------------
(* The Unadipatha dispatch as a state machine: a request is one call of    *)
(* run on a prakriya.                                                      *)

IdleKrtPrakriya == KrtPrakriya_new(Prakriya(<<>>, None, Config(TRUE, FALSE, {})), NoKrt)

\* The prakriya that the request will be made on.
InitUnadi ==
    /\ kp = IdleKrtPrakriya
    /\ ctx = <<>>
    /\ last = NoCall(kp)
    /\ nops = 0
    /\ panicked = FALSE
    /\ \E terms \in UNADI_TERMS, config \in UNADI_CONFIGS :
          ucall = [done |-> FALSE, p0 |-> Prakriya(terms, None, config)]
    /\ hs = NoHarnessRun

\* run(p, krt)
UnadiRun ==
    /\ ~ucall.done
    /\ \E krt \in UNADI_KRTS :
          LET r == unadi_run(ucall.p0, krt)
          IN  /\ ucall' = [done |-> TRUE, krt |-> krt, p0 |-> ucall.p0, p |-> r.p,
                           some |-> r.some, ret |-> r.ret]
              /\ panicked' = r.panic
    /\ UNCHANGED <<kp, ctx, last, nops, hs>>

NextUnadi == UnadiRun

SpecUnadi == InitUnadi /\ [][NextUnadi]_vars

-----------------------------------------------------------------------------
(* The regression harness (bin/test_results.rs).  A run of the binary is   *)
(* the record hs: its arguments, the rows of the test-case file, where the *)
(* run stands (pc), the rows waiting for a worker (pending), the rows a    *)
(* worker is evaluating (running), the rows reported (reports), the lines  *)
(* written to stdout (out), the row whose worker holds the lock of stdout  *)
(* (lock, 0 when it is free) and the lines of its report written so far    *)
(* (written), the rows a derive_* call was made for, and the exit code     *)
(* once the process ended.                                                 *)
(* Text is a sequence of byte values.                                      *)

\* The most rows of a test-case file (after its header line).
MaxRows == 2

\* str::split(sep): the pieces of s between the separators, in order.  A
\* text without separator, the empty text included, is one piece.
RECURSIVE split(_, _)
split(s, sep) ==
    IF \E i \in 1..Len(s) : s[i] = sep
    THEN LET i == CHOOSE i \in 1..Len(s) : s[i] = sep /\ \A j \in 1..(i - 1) : s[j] # sep
         IN  <<SubSeq(s, 1, i - 1)>> \o split(SubSeq(s, i + 1, Len(s)), sep)
    ELSE <<s>>

\* .filter(|x| !x.is_empty())
filter_non_empty(xs) == SelectSeq(xs, LAMBDA x : x # <<>>)

\* The order of str: bytewise lexicographic.
str_lt(a, b) ==
    \E i \in 1..Len(b) :
        /\ \A j \in 1..(i - 1) : j <= Len(a) /\ a[j] = b[j]
        /\ (i > Len(a) \/ a[i] < b[i])

\* Vec::sort
RECURSIVE sort(_)
sort(xs) ==
    IF xs = <<>> THEN <<>>
    ELSE LET m == CHOOSE i \in 1..Len(xs) : \A j \in 1..Len(xs) : ~str_lt(xs[j], xs[i])
         IN  <<xs[m]>> \o sort(SubSeq(xs, 1, m - 1) \o SubSeq(xs, m + 1, Len(xs)))

\* Vec::dedup: of each run of equal neighbours the first is kept.
RECURSIVE dedup(_)
dedup(xs) ==
    IF Len(xs) < 2 THEN xs
    ELSE IF xs[1] = xs[2] THEN dedup(Tail(xs))
    ELSE <<xs[1]>> \o dedup(Tail(xs))

\* "actual": the texts of the derived prakriyas, sorted and deduplicated.
actual_of(derived) == dedup(sort(derived))

\* test_tinanta(line).  The fields are taken by index from the record read
\* from the line, which panics when the line has fewer fields; a value that
\* does not parse and a dhatu that does not exist return Err through `?`.
\* All of it precedes derive_tinantas.  expected is the padas field split at
\* '|' (byte 124), as written.
test_tinanta(row) ==
    IF row.shape = "missing_field"
    THEN [outcome |-> "panic", derived |-> FALSE, fail |-> FALSE]
    ELSE IF row.shape # "ok"
    THEN [outcome |-> "Err", derived |-> FALSE, fail |-> FALSE]
    ELSE [outcome |-> "Ok", derived |-> TRUE,
          fail |-> split(row.padas, 124) # actual_of(row.derived)]

\* test_krdanta(r).  The row was deserialized into a KrdantaRow by the csv
\* reader: a missing field or a value that does not parse is the Err that
\* `r?` returns.  expected leaves out the empty pieces.
test_krdanta(row) ==
    IF row.shape # "ok"
    THEN [outcome |-> "Err", derived |-> FALSE, fail |-> FALSE]
    ELSE [outcome |-> "Ok", derived |-> TRUE,
          fail |-> filter_non_empty(split(row.padas, 124)) # actual_of(row.derived)]

\* test_dhatu(line): as test_tinanta, with the empty pieces left out.
test_dhatu(row) ==
    IF row.shape = "missing_field"
    THEN [outcome |-> "panic", derived |-> FALSE, fail |-> FALSE]
    ELSE IF row.shape # "ok"
    THEN [outcome |-> "Err", derived |-> FALSE, fail |-> FALSE]
    ELSE [outcome |-> "Ok", derived |-> TRUE,
          fail |-> filter_non_empty(split(row.padas, 124)) # actual_of(row.derived)]

\* The csv record of a tinanta row, r[0] .. r[8] of the source being
\* r[1] .. r[9] here: padas, upadesha, gana, number, sanadi, prayoga,
\* lakara, purusha, vacana.
record_of(row) ==
    <<row.padas, "BU", "01", "0001", "", "kartari", "law", "prathama", "eka">>

\* The arguments that test_tinanta derives the row with: prayoga, lakara,
\* purusha and vacana are parsed from r[5], r[6], r[7], r[8].
tinanta_args(r) ==
    [prayoga |-> r[5 + 1], lakara |-> r[6 + 1], purusha |-> r[7 + 1], vacana |-> r[8 + 1]]

\* The columns lakara, purusha and vacana of the [ FAIL ] line of
\* test_tinanta, taken from r[5], r[6], r[7].
fail_columns(r) ==
    [lakara |-> r[5 + 1], purusha |-> r[6 + 1], vacana |-> r[7 + 1]]

\* The lines of a [ FAIL ] report, in the order they are written.
REPORT_LINES == <<"FAIL", "Expected", "Actual">>

\* A line of stdout: the row it is about, which line it is, and the columns
\* of a tinanta [ FAIL ] line.
Line(h, i, line) ==
    [row |-> i, line |-> line,
     cols |-> IF line = "FAIL" /\ h.args.data_type = "tinanta"
              THEN fail_columns(record_of(h.rows[i])) ELSE <<>>]

\* A stdout that every writer finds free.
stdout_free_always(h) == TRUE

\* stdout().lock() and println! wait until no other thread holds the lock.
stdout_free(h) == h.lock = 0

\* The data types that run dispatches on.
DATA_TYPES == {"krdanta", "tinanta", "dhatu"}

\* The closure that run gives to for_each, for a known data type.
test_row(data_type, row) ==
    IF data_type = "krdanta" THEN test_krdanta(row)
    ELSE IF data_type = "tinanta" THEN test_tinanta(row)
    ELSE test_dhatu(row)

\* What the closure prints for a row: the [ FAIL ] report of the test
\* function, or the ERROR line for an Err.
reports_of(data_type, rows, i) ==
    LET r == test_row(data_type, rows[i])
    IN  (IF r.fail THEN {<<i, "FAIL">>} ELSE {})
        \cup (IF r.outcome = "Err" THEN {<<i, "ERROR">>} ELSE {})

\* check_file_hash(path, hash): "ok" when the file hashes to --hash, and a
\* fatal error otherwise.
check_file_hash(readable, hash_ok) ==
    IF readable /\ hash_ok THEN "ok" ELSE "fatal"

\* A check that lets every file through.
may_read_unchecked(h) == h.pc \in {"run", "checked"}

\* run reads the file after check_file_hash has returned.
may_read(h) == h.pc = "checked"

\* The rows of the test-case files: what is written in the padas field, the
\* texts of the prakriyas that the engine derives for the row, and whether
\* the row is well-formed.  97 and 98 are the bytes of "a" and "b".
Row(padas, derived, shape) == [padas |-> padas, derived |-> derived, shape |-> shape]

ROWS ==
    { Row(<<>>, <<>>, "ok"),
      Row(<<97, 124, 98>>, <<<<98>>, <<97>>>>, "ok"),
      Row(<<98, 124, 97>>, <<<<97>>, <<98>>>>, "ok"),
      Row(<<97, 124, 97>>, <<<<97>>>>, "ok"),
      Row(<<97>>, <<<<97>>, <<97>>>>, "ok"),
      Row(<<97>>, <<<<98>>>>, "ok"),
      Row(<<97>>, <<>>, "ok"),
      Row(<<97>>, <<<<97>>>>, "bad_enum"),
      Row(<<97>>, <<<<97>>>>, "no_dhatu"),
      Row(<<97>>, <<<<97>>>>, "missing_field") }

RECURSIVE FilesOfLen(_)
FilesOfLen(n) ==
    IF n = 0 THEN {<<>>}
    ELSE {Append(f, row) : f \in FilesOfLen(n - 1), row \in ROWS}

FILES == UNION {FilesOfLen(n) : n \in 0..MaxRows}

\* The command lines: whether clap accepts the arguments, whether the file
\* of --test-cases can be read, whether it hashes to --hash, and the value
\* of --data-type, which is any string.
ARGS ==
    [parsable : {TRUE}, readable : {TRUE}, hash_ok : BOOLEAN,
     data_type : DATA_TYPES \cup {"subanta"}]
    \cup [parsable : {TRUE}, readable : {FALSE}, hash_ok : {TRUE},
          data_type : DATA_TYPES \cup {"subanta"}]
    \cup [parsable : {FALSE}, readable : {TRUE}, hash_ok : {TRUE}, data_type : {"tinanta"}]

InitHarness ==
    /\ kp = IdleKrtPrakriya
    /\ ctx = <<>>
    /\ last = NoCall(kp)
    /\ nops = 0
    /\ panicked = FALSE
    /\ ucall = NoUnadiCall
    /\ \E args \in ARGS, rows \in FILES :
          hs = [pc |-> "main", args |-> args, rows |-> rows, checked |-> FALSE,
                pending |-> {}, running |-> {}, finished |-> {}, reports |-> {},
                out |-> <<>>, lock |-> 0, written |-> 0,
                derives |-> {}, panic |-> FALSE, exit |-> -1]

Exit(h, code) == [h EXCEPT !.pc = "exit", !.exit = code]

\* main: Args::parse().  clap ends the process with code 2 on a usage error.
ArgsParse ==
    /\ hs.pc = "main"
    /\ hs' = IF hs.args.parsable THEN [hs EXCEPT !.pc = "run"] ELSE Exit(hs, 2)
    /\ UNCHANGED <<kp, ctx, last, nops, panicked, ucall>>

\* run: check_file_hash(&args.test_cases, &args.hash).  The call returns
\* nothing, so that a fatal error ends the process inside it, with a code
\* other than 0.  When the file cannot be read the call may also leave the
\* failure to read_to_string.
CheckFileHash ==
    /\ hs.pc = "run"
    /\ \/ /\ check_file_hash(hs.args.readable, hs.args.hash_ok) = "ok"
          /\ hs' = [hs EXCEPT !.pc = "checked", !.checked = TRUE]
       \/ /\ check_file_hash(hs.args.readable, hs.args.hash_ok) = "fatal"
          /\ \E code \in {1, 101} : hs' = Exit([hs EXCEPT !.checked = TRUE], code)
       \/ /\ ~hs.args.readable
          /\ hs' = [hs EXCEPT !.pc = "checked", !.checked = TRUE]
    /\ UNCHANGED <<kp, ctx, last, nops, panicked, ucall>>

\* run: read_to_string(..)?, then the dispatch on --data-type.  An Err is
\* printed by main, which exits with code 1.  A data type that is none of
\* the three takes no branch: no row is given to a worker.
ReadFile ==
    /\ may_read(hs)
    /\ hs' = IF ~hs.args.readable THEN Exit(hs, 1)
             ELSE [hs EXCEPT !.pc = "rows",
                             !.pending = IF hs.args.data_type \in DATA_TYPES
                                         THEN 1..Len(hs.rows) ELSE {}]
    /\ UNCHANGED <<kp, ctx, last, nops, panicked, ucall>>

\* par_bridge().for_each: a worker takes a row.
RowStart ==
    /\ hs.pc = "rows"
    /\ \E i \in hs.pending :
          hs' = [hs EXCEPT !.pending = @ \ {i}, !.running = @ \cup {i}]
    /\ UNCHANGED <<kp, ctx, last, nops, panicked, ucall>>

\* A worker ends the evaluation of a row that has no [ FAIL ] report: the
\* test function has returned Ok or Err, or panicked.  For an Err the
\* closure prints the ERROR line with println!, which takes the lock of
\* stdout for the line.
RowFinish ==
    /\ hs.pc = "rows"
    /\ \E i \in hs.running :
          LET r == test_row(hs.args.data_type, hs.rows[i])
          IN  /\ ~r.fail
              /\ r.outcome = "Err" => stdout_free(hs)
              /\ hs' = [hs EXCEPT !.running = @ \ {i},
                                  !.finished = @ \cup {i},
                                  !.reports = @ \cup reports_of(hs.args.data_type, hs.rows, i),
                                  !.out = IF r.outcome = "Err"
                                          THEN Append(@, Line(hs, i, "ERROR")) ELSE @,
                                  !.derives = IF r.derived THEN @ \cup {i} ELSE @,
                                  !.panic = @ \/ r.outcome = "panic"]
    /\ UNCHANGED <<kp, ctx, last, nops, panicked, ucall>>

\* A worker whose row is a mismatch takes the lock of stdout and writes the
\* [ FAIL ] line of its report.
ReportBegin ==
    /\ hs.pc = "rows"
    /\ \E i \in hs.running :
          /\ test_row(hs.args.data_type, hs.rows[i]).fail
          /\ i # hs.lock
          /\ stdout_free(hs)
          /\ hs' = [hs EXCEPT !.lock = i, !.written = 1,
                              !.out = Append(@, Line(hs, i, REPORT_LINES[1])),
                              !.reports = @ \cup {<<i, "FAIL">>},
                              !.derives = @ \cup {i}]
    /\ UNCHANGED <<kp, ctx, last, nops, panicked, ucall>>

\* The worker that holds the lock writes the next line of its report; after
\* the last line the test function returns, which releases the lock.
ReportLine ==
    /\ hs.pc = "rows"
    /\ hs.lock # 0
    /\ hs' = IF hs.written + 1 < Len(REPORT_LINES)
             THEN [hs EXCEPT !.written = @ + 1,
                             !.out = Append(@, Line(hs, hs.lock, REPORT_LINES[hs.written + 1]))]
             ELSE [hs EXCEPT !.written = 0, !.lock = 0,
                             !.out = Append(@, Line(hs, hs.lock, REPORT_LINES[hs.written + 1])),
                             !.running = @ \ {hs.lock},
                             !.finished = @ \cup {hs.lock}]
    /\ UNCHANGED <<kp, ctx, last, nops, panicked, ucall>>

\* run returns Ok(()) when for_each has returned, and main returns.
RunReturns ==
    /\ hs.pc = "rows"
    /\ ~hs.panic
    /\ hs.pending = {} /\ hs.running = {}
    /\ hs' = Exit(hs, 0)
    /\ UNCHANGED <<kp, ctx, last, nops, panicked, ucall>>

\* The panic of a worker is propagated to the thread of main, which ends
\* the process with code 101.  The rows that no worker has finished by then
\* are not evaluated.
PanicExit ==
    /\ hs.pc = "rows"
    /\ hs.panic
    /\ hs' = Exit(hs, 101)
    /\ UNCHANGED <<kp, ctx, last, nops, panicked, ucall>>

NextHarness ==
    \/ ArgsParse
    \/ CheckFileHash
    \/ ReadFile
    \/ RowStart
    \/ RowFinish
    \/ ReportBegin
    \/ ReportLine
    \/ RunReturns
    \/ PanicExit

SpecHarness == InitHarness /\ [][NextHarness]_vars

-----------------------------------------------------------------------------
(* Krt::to_term as a state machine: a request is one call of to_term on a  *)
(* krt-pratyaya.                                                           *)

\* The base krts of the requests: the krtya-pratyayas and other base krts.
BASE_KRTS ==
    KRTYA \cup KRTS
    \cup {Base(<<"k", "t", "a">>), Base(<<"t", "f", "c">>), Base(<<"l", "y", "u", "w">>),
          Base(<<"G", "a", "Y">>), Base(<<"k", "t", "v", "A">>), Base(<<"t", "u", "m", "u", "n">>)}

InitToTerm ==
    /\ kp = IdleKrtPrakriya
    /\ ctx = <<>>
    /\ last = NoCall(kp)
    /\ nops = 0
    /\ panicked = FALSE
    /\ hs = NoHarnessRun
    /\ \E krt \in BASE_KRTS \cup UNADIS : ucall = [done |-> FALSE, krt |-> krt]

\* krt.to_term()
ToTerm ==
    /\ ~ucall.done
    /\ ucall' = [done |-> TRUE, krt |-> ucall.krt, term |-> to_term(ucall.krt)]
    /\ UNCHANGED <<kp, ctx, last, nops, panicked, hs>>

NextToTerm == ToTerm

SpecToTerm == InitToTerm /\ [][NextToTerm]_vars

-----------------------------------------------------------------------------
(* The Ganapatha (ganapatha.rs): the word lists, each under the name of    *)
(* its constant, with the entries in the order and the spelling of the     *)
(* file.  A request is one membership test of a word in a list.            *)

GANAPATHA ==
    <<
      [name |-> "SARVA_ADI", entries |-> <<
          <<"s", "a", "r", "v", "a">>, <<"v", "i", "S", "v", "a">>, <<"u", "B", "a">>, <<"u", "B", "a", "y",
          "a">>, <<"q", "a", "t", "a", "r", "a">>, <<"q", "a", "t", "a", "m", "a">>, <<"a", "n", "y", "a">>,
          <<"a", "n", "y", "a", "t", "a", "r", "a">>, <<"i", "t", "a", "r", "a">>, <<"t", "v", "a", "t">>,
          <<"t", "v", "a">>, <<"n", "e", "m", "a">>, <<"s", "a", "m", "a">>, <<"s", "i", "m", "a">>, <<"p",
          "U", "r", "v", "a">>, <<"p", "a", "r", "a">>, <<"a", "v", "a", "r", "a">>, <<"d", "a", "k", "z",
          "i", "R", "a">>, <<"u", "t", "t", "a", "r", "a">>, <<"a", "p", "a", "r", "a">>, <<"a", "D", "a",
          "r", "a">>, <<"s", "v", "a">>, <<"a", "n", "t", "a", "r", "a">>, <<"t", "y", "a", "d">>, <<"t", "a",
          "d">>, <<"y", "a", "d">>, <<"e", "t", "a", "d">>, <<"i", "d", "a", "m">>, <<"a", "d", "a", "s">>,
          <<"e", "k", "a">>, <<"d", "v", "i">>, <<"y", "u", "z", "m", "a", "d">>, <<"a", "s", "m", "a", "d">>,
          <<"B", "a", "v", "a", "t", "u", "~">>, <<"k", "i", "m">>>>],
      [name |-> "SVAR_ADI", entries |-> <<
          <<"s", "v", "a", "r">>, <<"a", "n", "t", "a", "r">>, <<"p", "r", "A", "t", "a", "r">>, <<"p", "u",
          "n", "a", "r">>, <<"s", "a", "n", "u", "t", "a", "r">>, <<"u", "c", "c", "E", "s">>, <<"n", "I",
          "c", "E", "s">>, <<"S", "a", "n", "E", "s">>, <<"f", "D", "a", "k">>, <<"f", "t", "e">>, <<"y", "u",
          "g", "a", "p", "a", "t">>, <<"A", "r", "A", "t">>, <<"a", "n", "t", "i", "k", "A", "t">>, <<"p",
          "f", "T", "a", "k">>, <<"h", "y", "a", "s">>, <<"S", "v", "a", "s">>, <<"d", "i", "v", "A">>, <<"r",
          "A", "t", "r", "O">>, <<"s", "A", "y", "a", "m">>, <<"c", "i", "r", "a", "m">>, <<"m", "a", "n",
          "A", "k">>, <<"I", "z", "a", "t">>, <<"S", "a", "S", "v", "a", "t">>, <<"j", "o", "z", "a", "m">>,
          <<"t", "U", "z", "R", "I", "m">>, <<"b", "a", "h", "i", "s">>, <<"a", "D", "a", "s">>, <<"a", "v",
          "a", "s">>, <<"s", "a", "m", "a", "y", "A">>, <<"n", "i", "k", "a", "z", "A">>, <<"s", "v", "a",
          "y", "a", "m">>, <<"m", "f", "z", "A">>, <<"n", "a", "k", "t", "a", "m">>, <<"n", "a", "Y">>, <<"h",
          "e", "t", "O">>, <<"h", "e">>, <<"h", "E">>, <<"i", "d", "D", "A">>, <<"a", "d", "D", "A">>, <<"s",
          "A", "m", "i">>, <<"s", "a", "n", "A">>, <<"s", "a", "n", "a", "t">>, <<"s", "a", "n", "A", "t">>,
          <<"u", "p", "a", "D", "A">>, <<"t", "i", "r", "a", "s">>, <<"a", "n", "t", "a", "r", "A">>, <<"a",
          "n", "t", "a", "r", "e", "R", "a">>, <<"m", "a", "k">>, <<"j", "y", "o", "k">>, <<"y", "o", "k">>,
          <<"n", "a", "k">>, <<"k", "a", "m">>, <<"S", "a", "m">>, <<"s", "a", "n", "A">>, <<"s", "a", "h",
          "a", "s", "A">>, <<"S", "r", "a", "d", "D", "A">>, <<"a", "l", "a", "m">>, <<"s", "v", "a", "D",
          "A">>, <<"v", "a", "z", "a", "w">>, <<"v", "i", "n", "A">>, <<"n", "A", "n", "A">>, <<"s", "v", "a",
          "s", "t", "i">>, <<"a", "n", "y", "a", "t">>, <<"a", "s", "t", "i">>, <<"u", "p", "A", "M", "S",
          "u">>, <<"k", "z", "a", "m", "A">>, <<"v", "i", "h", "A", "y", "a", "s", "A">>, <<"d", "o", "z",
          "A">>, <<"m", "f", "z", "A">>, <<"m", "u", "D", "A">>, <<"d", "i", "z", "w", "y", "A">>, <<"v", "f",
          "T", "A">>, <<"m", "i", "T", "y", "A">>, <<"p", "u", "r", "A">>, <<"m", "i", "T", "o">>, <<"m", "i",
          "T", "a", "s">>, <<"p", "r", "A", "y", "a", "s">>, <<"m", "u", "h", "u", "s">>, <<"p", "r", "a",
          "v", "A", "h", "u", "k", "a", "m">>, <<"p", "r", "a", "v", "A", "h", "i", "k", "A">>, <<"A", "r",
          "y", "a", "h", "a", "l", "a", "m">>, <<"a", "B", "I", "k", "z", "R", "a", "m">>, <<"s", "A", "y",
          "a", "m">>, <<"s", "A", "k", "a", "m">>, <<"s", "A", "r", "D", "a", "m">>, <<"s", "A", "r", "T",
          "a", "m">>, <<"s", "a", "t", "r", "a", "m">>, <<"s", "a", "m", "a", "m">>, <<"n", "a", "m", "a",
          "s">>, <<"h", "i", "r", "u", "k">>, <<"a", "T", "a">>, <<"a", "m">>, <<"A", "m">>, <<"p", "r", "a",
          "t", "A", "m">>, <<"p", "r", "a", "t", "A", "n">>, <<"p", "r", "a", "S", "A", "n">>, <<"t", "a",
          "T", "A", "h", "i">>, <<"m", "A">>, <<"m", "A", "N">>, <<"S", "r", "a", "m">>, <<"k", "A", "m", "a",
          "m">>, <<"p", "r", "a", "k", "A", "m", "a", "m">>, <<"B", "U", "y", "a", "s">>, <<"p", "a", "r",
          "a", "m">>, <<"s", "A", "k", "z", "A", "t">>, <<"s", "A", "c", "i">>, <<"s", "A", "v", "i">>, <<"s",
          "a", "t", "y", "a", "m">>, <<"m", "a", "M", "k", "z", "u">>, <<"s", "a", "M", "v", "a", "t">>,
          <<"a", "v", "a", "S", "y", "a", "m">>, <<"s", "a", "p", "a", "d", "i">>, <<"p", "r", "A", "d", "u",
          "s">>, <<"A", "v", "i", "s">>, <<"a", "n", "i", "S", "a", "m">>, <<"n", "i", "t", "y", "a", "m">>,
          <<"n", "i", "t", "y", "a", "d", "A">>, <<"s", "a", "d", "A">>, <<"a", "j", "a", "s", "r", "a",
          "m">>, <<"s", "a", "n", "t", "a", "t", "a", "m">>, <<"u", "z", "A">>, <<"o", "m">>, <<"B", "U",
          "r">>, <<"B", "u", "v", "a", "r">>, <<"J", "a", "w", "i", "t", "i">>, <<"t", "a", "r", "a", "s",
          "A">>, <<"s", "u", "z", "W", "u">>, <<"k", "u">>, <<"a", "Y", "j", "a", "s", "A">>, <<"a">>, <<"m",
          "i", "T", "u">>, <<"a", "m", "i", "T", "u">>, <<"v", "i", "T", "a", "k">>, <<"B", "A", "j", "a",
          "k">>, <<"a", "n", "v", "a", "k">>, <<"c", "i", "r", "A", "y", "a">>, <<"c", "i", "r", "a", "m">>,
          <<"c", "i", "r", "a", "r", "A", "t", "r", "A", "y", "a">>, <<"c", "i", "r", "a", "s", "y", "a">>,
          <<"c", "i", "r", "e", "R", "a">>, <<"c", "i", "r", "A", "t">>, <<"a", "s", "t", "a", "m">>, <<"A",
          "n", "u", "z", "a", "k">>, <<"a", "n", "u", "z", "a", "k">>, <<"a", "n", "u", "z", "a", "w">>,
          <<"a", "m", "n", "a", "s">>, <<"a", "m", "B", "a", "s">>, <<"a", "m", "n", "a", "r">>, <<"a", "m",
          "B", "a", "r">>, <<"s", "T", "A", "n", "e">>, <<"v", "a", "r", "a", "m">>, <<"d", "u", "z", "W",
          "u">>, <<"b", "a", "l", "A", "t">>, <<"S", "u">>, <<"a", "r", "v", "A", "k">>, <<"S", "u", "d",
          "i">>, <<"v", "a", "d", "i">>, <<"i", "t", "y", "A", "d", "i">>>>],
      [name |-> "CA_ADI", entries |-> <<
          <<"c", "a">>, <<"v", "A">>, <<"h", "a">>, <<"a", "h", "a">>, <<"e", "v", "a">>, <<"e", "v", "a",
          "m">>, <<"n", "U", "n", "a", "m">>, <<"S", "a", "S", "v", "a", "t">>, <<"y", "u", "g", "a", "p",
          "a", "t">>, <<"s", "U", "p", "a", "t">>, <<"k", "U", "p", "a", "t">>, <<"k", "u", "v", "i", "t">>,
          <<"n", "e", "t">>, <<"c", "e", "t">>, <<"c", "a", "R">>, <<"k", "a", "c", "c", "i", "t">>, <<"y",
          "a", "t", "r", "a">>, <<"n", "a", "h", "a">>, <<"h", "a", "n", "t", "a">>, <<"m", "A", "k", "i",
          "m">>, <<"n", "a", "k", "i", "m">>, <<"m", "A", "N">>, <<"n", "a", "Y">>, <<"y", "A", "v", "a",
          "t">>, <<"t", "A", "v", "a", "t">>, <<"t", "v", "A">>, <<"t", "v", "E">>, <<"d", "v", "E">>, <<"r",
          "E">>, <<"S", "r", "O", "z", "a", "w">>, <<"v", "O", "z", "a", "w">>, <<"s", "v", "A", "h", "A">>,
          <<"v", "a", "z", "a", "w">>, <<"s", "v", "a", "D", "A">>, <<"o", "m">>, <<"k", "i", "l", "a">>,
          <<"t", "a", "T", "A">>, <<"a", "T", "a">>, <<"s", "u">>, <<"s", "m", "a">>, <<"a", "s", "m", "i">>,
          <<"a">>, <<"i">>, <<"u">>, <<"f">>, <<"x">>, <<"e">>, <<"E">>, <<"o">>, <<"O">>, <<"a", "m">>,
          <<"t", "a", "k">>, <<"u", "Y">>, <<"u", "k", "a", "Y">>, <<"v", "e", "l", "A", "y", "A", "m">>,
          <<"m", "A", "t", "r", "A", "y", "A", "m">>, <<"y", "a", "T", "A">>, <<"y", "a", "t">>, <<"y", "a",
          "m">>, <<"t", "a", "t">>, <<"k", "i", "m">>, <<"p", "u", "r", "A">>, <<"a", "d", "D", "A">>, <<"D",
          "i", "k">>, <<"h", "A", "h", "A">>, <<"h", "e">>, <<"h", "E">>, <<"p", "y", "A", "w">>, <<"p", "A",
          "w">>, <<"T", "A", "w">>, <<"a", "h", "o">>, <<"u", "t", "A", "h", "o">>, <<"h", "o">>, <<"t", "u",
          "m">>, <<"t", "a", "T", "A", "h", "i">>, <<"K", "a", "l", "u">>, <<"A", "m">>, <<"A", "h", "o">>,
          <<"a", "T", "o">>, <<"n", "a", "n", "u">>, <<"m", "a", "n", "y", "e">>, <<"m", "i", "T", "y", "A">>,
          <<"a", "s", "i">>, <<"b", "r", "U", "h", "i">>, <<"t", "u">>, <<"n", "u">>, <<"i", "t", "i">>,
          <<"i", "v", "a">>, <<"v", "a", "t">>, <<"c", "a", "n", "a">>, <<"b", "a", "t", "a">>, <<"i", "h",
          "a">>, <<"S", "a", "m">>, <<"k", "a", "m">>, <<"a", "n", "u", "k", "a", "m">>, <<"n", "a", "h", "i",
          "k", "a", "m">>, <<"h", "i", "k", "a", "m">>, <<"s", "u", "k", "a", "m">>, <<"s", "a", "t", "y",
          "a", "m">>, <<"f", "t", "a", "m">>, <<"S", "f", "a", "d", "D", "A">>, <<"i", "d", "D", "A">>, <<"m",
          "u", "D", "A">>, <<"j", "A", "t", "u">>, <<"k", "a", "T", "a", "m">>, <<"k", "u", "t", "a", "H">>,
          <<"k", "u", "t", "r", "a">>, <<"a", "v", "a">>, <<"a", "n", "u">>, <<"h", "A", "h", "O">>, <<"h",
          "E", "h", "A">>, <<"I", "h", "A">>, <<"A", "h", "o", "s", "v", "i", "t">>, <<"C", "a", "m", "b",
          "a", "w">>, <<"K", "a", "m">>, <<"d", "i", "z", "w", "y", "A">>, <<"p", "a", "S", "u">>, <<"v", "a",
          "w">>, <<"s", "a", "h", "a">>, <<"A", "n", "u", "z", "a", "k">>, <<"a", "N", "g", "a">>, <<"P", "a",
          "w">>, <<"t", "A", "j", "a", "k">>, <<"a", "y", "e">>, <<"a", "r", "e">>, <<"c", "a", "w", "u">>,
          <<"b", "A", "w">>, <<"k", "u", "m">>, <<"K", "u", "m">>, <<"G", "u", "m">>, <<"h", "u", "m">>,
          <<"A", "I", "m">>, <<"S", "I", "m">>, <<"s", "I", "m">>, <<"v", "E">>>>],
      [name |-> "PRA_ADI", entries |-> <<
          <<"p", "r", "a">>, <<"p", "a", "r", "A">>, <<"a", "p", "a">>, <<"s", "a", "m">>, <<"a", "n", "u">>,
          <<"a", "v", "a">>, <<"n", "i", "s">>, <<"n", "i", "r">>, <<"d", "u", "s">>, <<"d", "u", "r">>,
          <<"v", "i">>, <<"A", "N">>, <<"n", "i">>, <<"a", "D", "i">>, <<"a", "p", "i">>, <<"a", "t", "i">>,
          <<"s", "u">>, <<"u", "d">>, <<"a", "B", "i">>, <<"p", "r", "a", "t", "i">>, <<"p", "a", "r", "i">>,
          <<"u", "p", "a">>>>],
      [name |-> "URI_ADI", entries |-> <<
          <<"U", "r", "I">>, <<"u", "r", "a", "r", "I">>, <<"t", "a", "n", "T", "I">>, <<"t", "A", "l", "I">>,
          <<"A", "t", "t", "A", "l", "I">>, <<"v", "e", "t", "A", "l", "I">>, <<"D", "U", "l", "I">>, <<"D",
          "U", "s", "a">>, <<"S", "a", "k", "a", "l", "A">>, <<"s", "a", "M", "S", "a", "k", "a", "l", "A">>,
          <<"D", "v", "a", "M", "s", "a", "k", "a", "l", "A">>, <<"B", "r", "a", "M", "s", "a", "k", "a", "l",
          "A">>, <<"g", "u", "l", "u", "g", "u", "D", "A">>, <<"s", "a", "j", "U", "s">>, <<"P", "a", "l",
          "a">>, <<"P", "a", "l", "I">>, <<"v", "i", "k", "l", "I">>, <<"A", "k", "l", "I">>, <<"A", "l", "o",
          "z", "W", "I">>, <<"k", "e", "v", "A", "l", "I">>, <<"k", "e", "v", "A", "s", "I">>, <<"s", "e",
          "v", "A", "s", "I">>, <<"p", "a", "r", "y", "A", "l", "I">>, <<"S", "e", "v", "A", "l", "I">>,
          <<"v", "a", "r", "z", "A", "l", "I">>, <<"a", "t", "y", "U", "m", "a", "S", "A">>, <<"m", "a", "S",
          "m", "a", "S", "A">>, <<"m", "a", "s", "m", "a", "s", "A">>, <<"m", "a", "s", "a", "m", "a", "s",
          "A">>, <<"O", "z", "a", "w">>, <<"S", "r", "O", "z", "a", "w">>, <<"v", "O", "z", "a", "w">>, <<"v",
          "a", "z", "a", "w">>, <<"s", "v", "A", "h", "A">>, <<"s", "v", "a", "D", "A">>, <<"v", "a", "n",
          "D", "A">>, <<"p", "r", "A", "d", "u", "s">>, <<"S", "r", "a", "t">>, <<"A", "v", "i", "s">>>>],
      [name |-> "SAKSHAT_PRABHRTI", entries |-> <<
          <<"s", "A", "k", "z", "A", "t">>, <<"m", "i", "T", "y", "A">>, <<"c", "i", "n", "t", "A">>, <<"B",
          "a", "d", "r", "A">>, <<"r", "o", "c", "a", "n", "A">>, <<"A", "s", "T", "A">>, <<"a", "m", "A">>,
          <<"S", "r", "a", "d", "D", "A">>, <<"p", "r", "A", "j", "a", "r", "y", "A">>, <<"p", "r", "A", "j",
          "a", "r", "u", "h", "A">>, <<"b", "I", "j", "a", "r", "y", "A">>, <<"b", "I", "j", "a", "r", "u",
          "h", "A">>, <<"s", "a", "M", "s", "a", "r", "y", "A">>, <<"a", "r", "T", "e">>, <<"l", "a", "v",
          "a", "R", "a", "m">>, <<"u", "z", "R", "a", "m">>, <<"S", "I", "t", "a", "m">>, <<"u", "d", "a",
          "k", "a", "m">>, <<"A", "r", "d", "r", "a", "m">>, <<"a", "g", "n", "O">>, <<"v", "a", "S", "e">>,
          <<"v", "i", "h", "a", "s", "a", "n", "e">>, <<"p", "r", "a", "s", "a", "h", "a", "n", "e">>, <<"p",
          "r", "a", "t", "a", "p", "a", "n", "e">>, <<"p", "r", "A", "d", "u", "s">>, <<"n", "a", "m", "a",
          "s">>, <<"A", "v", "i", "s">>>>],
      [name |-> "SHAUNDA_ADI", entries |-> <<
          <<"S", "O", "R", "q", "a">>, <<"D", "U", "r", "t", "a">>, <<"k", "i", "t", "a", "v", "a">>, <<"v",
          "y", "A", "q", "a">>, <<"p", "r", "a", "v", "I", "R", "a">>, <<"s", "a", "M", "v", "I", "t", "a">>,
          <<"a", "n", "t", "a", "r">>, <<"a", "D", "i">>, <<"p", "a", "w", "u">>, <<"p", "a", "R", "q", "i",
          "t", "a">>, <<"c", "a", "p", "a", "l", "a">>, <<"n", "i", "p", "u", "R", "a">>>>],
      [name |-> "SHRAMANA_ADI", entries |-> <<
          <<"S", "r", "a", "m", "a", "R", "A">>, <<"p", "r", "a", "v", "r", "a", "j", "i", "t", "A">>, <<"k",
          "u", "l", "a", "w", "A">>, <<"g", "a", "r", "B", "i", "R", "I">>, <<"t", "A", "p", "a", "s", "I">>,
          <<"d", "A", "s", "I">>, <<"b", "a", "n", "D", "a", "k", "I">>, <<"a", "D", "y", "A", "p", "a", "k",
          "a">>, <<"a", "B", "i", "r", "U", "p", "a", "k", "a">>, <<"p", "a", "R", "q", "i", "t", "a">>,
          <<"p", "a", "w", "u">>, <<"m", "f", "d", "u">>, <<"k", "u", "S", "a", "l", "a">>, <<"c", "a", "p",
          "a", "l", "a">>, <<"n", "i", "p", "u", "R", "A">>>>],
      [name |-> "YAJAKA_ADI", entries |-> <<
          <<"y", "A", "j", "a", "k", "a">>, <<"p", "U", "j", "a", "k", "a">>, <<"p", "a", "r", "i", "c", "A",
          "r", "a", "k", "a">>, <<"p", "a", "r", "i", "v", "e", "z", "a", "k", "a">>, <<"p", "a", "r", "i",
          "z", "e", "c", "a", "k", "a">>, <<"s", "n", "A", "t", "a", "k", "a">>, <<"a", "D", "y", "A", "p",
          "a", "k", "a">>, <<"u", "t", "s", "A", "h", "a">>, <<"u", "d", "v", "a", "r", "t", "a", "k", "a">>,
          <<"h", "o", "t", "f">>, <<"B", "a", "t", "f">>, <<"r", "a", "T", "a", "g", "a", "R", "a", "k",
          "a">>, <<"p", "a", "t", "t", "i", "g", "a", "R", "a", "k", "a">>>>],
      [name |-> "BHRSHA_ADI", entries |-> <<
          <<"B", "f", "S", "a">>, <<"S", "I", "G", "r", "a">>, <<"c", "a", "p", "a", "l", "a">>, <<"m", "a",
          "n", "d", "a">>, <<"p", "a", "R", "q", "i", "t", "a">>, <<"u", "t", "s", "u", "k", "a">>, <<"s",
          "u", "m", "a", "n", "a", "s">>, <<"d", "u", "r", "m", "a", "n", "a", "s">>, <<"a", "B", "i", "m",
          "a", "n", "a", "s">>, <<"u", "n", "m", "a", "n", "a", "s">>, <<"r", "a", "h", "a", "s">>, <<"r",
          "o", "h", "a", "t">>, <<"r", "e", "h", "a", "t">>, <<"s", "a", "M", "S", "c", "a", "t">>, <<"t",
          "f", "p", "a", "t">>, <<"S", "a", "S", "v", "a", "t">>, <<"B", "r", "a", "m", "a", "t">>, <<"v",
          "e", "h", "a", "t">>, <<"S", "u", "c", "i", "s">>, <<"S", "u", "c", "i", "v", "a", "r", "c", "a",
          "s">>, <<"a", "R", "q", "a", "r", "a">>, <<"v", "a", "r", "c", "a", "s">>, <<"o", "j", "a", "s">>,
          <<"s", "u", "r", "a", "j", "a", "s">>, <<"a", "r", "a", "j", "a", "s">>>>],
      [name |-> "LOHITA_ADI", entries |-> <<
          <<"l", "o", "h", "i", "t", "a">>, <<"c", "a", "r", "i", "t", "a">>, <<"n", "I", "l", "a">>, <<"P",
          "e", "n", "a">>, <<"m", "a", "d", "r", "a">>, <<"h", "a", "r", "i">>, <<"d", "A", "s", "a">>, <<"m",
          "a", "n">>, <<"c", "a", "r", "m", "a", "n">>>>],
      [name |-> "SUKHA_ADI", entries |-> <<
          <<"s", "u", "K", "a">>, <<"d", "u", "H", "K", "a">>, <<"t", "f", "p", "t", "a">>, <<"k", "f", "c",
          "C", "r", "a">>, <<"a", "s", "r", "a">>, <<"A", "s", "r", "a">>, <<"a", "l", "o", "k", "a">>, <<"p",
          "r", "a", "t", "I", "p", "a">>, <<"k", "a", "r", "u", "R", "a">>, <<"k", "f", "p", "a", "R", "a">>,
          <<"s", "o">>>>],
      [name |-> "KANDU_ADI", entries |-> <<
          <<"k", "a", "R", "q", "U", "Y">>, <<"m", "a", "n", "t", "u">>, <<"m", "a", "n", "t", "u", "Y">>,
          <<"v", "a", "l", "g", "u">>, <<"a", "s", "u", "~">>, <<"a", "s", "U">>, <<"a", "s", "U", "Y">>,
          <<"l", "e", "w">>, <<"l", "o", "w">>, <<"l", "e", "l", "A">>, <<"i", "r", "a", "s">>, <<"i", "r",
          "a", "j">>, <<"i", "r", "a", "Y">>, <<"u", "z", "a", "s">>, <<"v", "e", "d", "a">>, <<"m", "e", "D",
          "A">>, <<"k", "u", "z", "u", "B", "a">>, <<"m", "a", "g", "a", "D", "a">>, <<"t", "a", "n", "t",
          "a", "s">>, <<"p", "a", "m", "p", "a", "s">>, <<"s", "u", "K", "a">>, <<"d", "u", "H", "K", "a">>,
          <<"s", "a", "p", "a", "r", "a">>, <<"a", "r", "a", "r", "a">>, <<"B", "i", "z", "a", "j", "U">>,
          <<"B", "i", "z", "R", "a", "j">>, <<"i", "z", "u", "D", "a">>, <<"c", "a", "r", "a", "R", "a">>,
          <<"v", "a", "r", "a", "R", "a">>, <<"c", "u", "r", "a", "R", "a">>, <<"t", "u", "r", "a", "R",
          "a">>, <<"B", "u", "r", "a", "R", "a">>, <<"g", "a", "d", "g", "a", "d", "a">>, <<"e", "l", "A">>,
          <<"k", "e", "l", "A">>, <<"K", "e", "l", "A">>, <<"i", "l", "A">>, <<"l", "e", "K", "A">>, <<"l",
          "e", "K", "a">>, <<"l", "i", "w", "a">>, <<"l", "A", "w", "a">>, <<"h", "f", "R", "I", "N">>, <<"m",
          "a", "h", "I", "N">>, <<"r", "e", "K", "A">>, <<"d", "r", "a", "v", "a", "s">>, <<"t", "i", "r",
          "a", "s">>, <<"a", "g", "a", "d", "a">>, <<"u", "r", "a", "s">>, <<"t", "a", "r", "a", "R", "a">>,
          <<"p", "a", "y", "a", "s">>, <<"s", "a", "m", "B", "U", "y", "a", "s">>, <<"a", "m", "b", "a", "r",
          "a">>, <<"s", "a", "M", "v", "a", "r", "a">>>>],
      [name |-> "AJA_ADI", entries |-> <<
          <<"a", "j", "a">>, <<"e", "q", "a", "k", "a">>, <<"k", "o", "k", "i", "l", "a">>, <<"c", "a", "w",
          "a", "k", "a">>, <<"a", "S", "v", "a">>, <<"m", "U", "z", "i", "k", "a">>, <<"b", "A", "l", "a">>,
          <<"h", "o", "q", "a">>, <<"p", "A", "k", "a">>, <<"v", "a", "t", "s", "a">>, <<"m", "a", "n", "d",
          "a">>, <<"v", "i", "l", "A", "t", "a">>, <<"p", "U", "r", "v", "A", "p", "a", "h", "a", "r", "a",
          "R", "a">>, <<"a", "p", "a", "r", "A", "p", "a", "h", "a", "r", "a", "R", "a">>, <<"s", "a", "m",
          "P", "a", "l", "a">>, <<"B", "a", "s", "t", "r", "a", "P", "a", "l", "a">>, <<"a", "j", "i", "n",
          "a", "P", "a", "l", "a">>, <<"S", "a", "R", "a", "P", "a", "l", "a">>, <<"p", "i", "R", "q", "a",
          "P", "a", "l", "a">>, <<"t", "r", "i", "P", "a", "l", "a">>, <<"s", "a", "t", "p", "u", "z", "p",
          "a">>, <<"p", "r", "A", "k", "p", "u", "z", "p", "a">>, <<"k", "A", "R", "q", "a", "p", "u", "z",
          "p", "a">>, <<"p", "r", "A", "n", "t", "a", "p", "u", "z", "p", "a">>, <<"S", "a", "t", "a", "p",
          "u", "z", "p", "a">>, <<"e", "k", "a", "p", "u", "z", "p", "a">>, <<"S", "U", "d", "r", "a">>,
          <<"k", "r", "u", "Y", "c">>, <<"u", "z", "R", "i", "h">>, <<"d", "e", "v", "a", "v", "i", "S">>,
          <<"j", "y", "e", "z", "W", "a">>, <<"k", "a", "n", "i", "z", "W", "a">>, <<"m", "a", "D", "y", "a",
          "m", "a">>, <<"a", "m", "U", "l", "a">>>>],
      [name |-> "SVASR_ADI", entries |-> <<
          <<"s", "v", "a", "s", "f">>, <<"d", "u", "h", "i", "t", "f">>, <<"n", "a", "n", "A", "n", "d",
          "f">>, <<"y", "A", "t", "f">>, <<"m", "A", "t", "f">>, <<"t", "i", "s", "f">>, <<"c", "a", "t", "a",
          "s", "f">>>>],
      [name |-> "GAURA_ADI", entries |-> <<
          <<"g", "O", "r", "a">>, <<"m", "a", "t", "s", "y", "a">>, <<"m", "a", "n", "u", "z", "y", "a">>,
          <<"S", "f", "N", "g", "a">>, <<"p", "i", "N", "g", "a", "l", "a">>, <<"h", "a", "y", "a">>, <<"g",
          "a", "v", "a", "y", "a">>, <<"m", "u", "k", "a", "y", "a">>, <<"f", "z", "y", "a">>, <<"p", "u",
          "w", "a">>, <<"d", "U", "R", "a">>, <<"d", "r", "u", "R", "a">>, <<"d", "r", "o", "R", "a">>, <<"h",
          "a", "r", "i", "R", "a">>, <<"k", "o", "k", "a", "R", "a">>, <<"k", "A", "k", "a", "R", "a">>,
          <<"p", "a", "w", "a", "r", "a">>, <<"u", "R", "a", "k", "a">>, <<"A", "m", "a", "l", "a">>, <<"A",
          "m", "a", "l", "a", "k", "a">>, <<"k", "u", "b", "a", "l", "a">>, <<"b", "i", "m", "b", "a">>,
          <<"b", "a", "d", "a", "r", "a">>, <<"P", "a", "r", "k", "a", "r", "a", "k", "a">>, <<"k", "a", "r",
          "k", "a", "r", "a", "k", "a">>, <<"t", "a", "r", "k", "A", "r", "a">>, <<"S", "a", "r", "k", "A",
          "r", "a">>, <<"p", "u", "z", "k", "a", "r", "a">>, <<"S", "i", "K", "a", "R", "q", "a">>, <<"s",
          "a", "l", "a">>, <<"S", "a", "z", "k", "a", "R", "q", "a">>, <<"s", "a", "n", "a", "n", "d", "a">>,
          <<"s", "u", "z", "a", "m", "a">>, <<"s", "u", "z", "a", "v", "a">>, <<"a", "l", "i", "n", "d",
          "a">>, <<"g", "a", "q", "u">>, <<"z", "A", "R", "q", "a", "S", "a">>, <<"A", "Q", "a", "k", "a">>,
          <<"A", "n", "a", "n", "d", "a">>, <<"A", "S", "v", "a", "t", "T", "a">>, <<"s", "f", "p", "A", "w",
          "a">>, <<"A", "K", "a", "k", "a">>, <<"A", "p", "a", "c", "c", "i", "k", "a">>, <<"S", "a", "z",
          "k", "u", "l", "a">>, <<"s", "U", "r", "y", "a">>, <<"s", "U", "r", "m", "a">>, <<"S", "U", "r",
          "p", "a">>, <<"s", "U", "p", "a">>, <<"v", "f", "s", "a">>, <<"a", "t", "a", "s", "a">>, <<"B",
          "a">>, <<"B", "f", "N", "g", "a">>, <<"m", "a", "h", "a">>, <<"m", "a", "W", "a">>, <<"C", "e", "d",
          "a">>, <<"p", "e", "S", "a">>, <<"m", "e", "d", "a">>, <<"S", "v", "a", "n">>, <<"t", "a", "k", "z",
          "a", "n">>, <<"a", "n", "a", "q", "u", "h", "I">>, <<"a", "n", "a", "q", "v", "A", "h", "I">>,
          <<"d", "e", "h", "a">>, <<"d", "e", "h", "a", "l", "a">>, <<"k", "A", "k", "A", "d", "a", "n",
          "a">>, <<"g", "a", "v", "A", "d", "a", "n", "a">>, <<"t", "e", "j", "a", "n", "a">>, <<"r", "a",
          "j", "a", "n", "a">>, <<"l", "a", "v", "a", "R", "a">>, <<"O", "d", "g", "A", "h", "a", "m", "A",
          "n", "i">>, <<"A", "d", "g", "A", "h", "a", "m", "A", "n", "i">>, <<"g", "O", "t", "a", "m", "a">>,
          <<"g", "o", "t", "a", "m", "a">>, <<"p", "A", "r", "a", "k", "a">>, <<"A", "y", "a", "s", "T", "U",
          "R", "a">>, <<"a", "y", "a", "H", "s", "T", "U", "R", "a">>, <<"B", "O", "r", "i", "k", "a">>,
          <<"B", "O", "l", "i", "k", "i">>, <<"B", "O", "l", "i", "N", "g", "i">>, <<"y", "A", "n", "a">>,
          <<"m", "e", "G", "a">>, <<"A", "l", "a", "m", "b", "i">>, <<"A", "l", "a", "j", "i">>, <<"A", "l",
          "a", "b", "D", "i">>, <<"A", "l", "a", "k", "z", "i">>, <<"k", "e", "v", "A", "l", "a">>, <<"A",
          "p", "a", "k", "a">>, <<"A", "r", "a", "w", "a">>, <<"n", "a", "w", "a">>, <<"w", "o", "w", "a">>,
          <<"n", "o", "w", "a">>, <<"m", "U", "l", "A", "w", "a">>, <<"S", "A", "t", "a", "n", "a">>, <<"p",
          "o", "t", "a", "n", "a">>, <<"p", "A", "t", "a", "n", "a">>, <<"p", "A", "W", "a", "n", "a">>,
          <<"p", "A", "n", "a", "W", "a">>, <<"A", "s", "t", "a", "r", "a", "R", "a">>, <<"a", "D", "i", "k",
          "a", "r", "a", "R", "a">>, <<"a", "D", "i", "k", "A", "r", "a">>, <<"A", "g", "r", "a", "h", "A",
          "y", "a", "R", "I">>, <<"A", "g", "r", "a", "h", "A", "y", "a", "R", "I">>, <<"p", "r", "a", "t",
          "y", "a", "v", "a", "r", "o", "h", "i", "R", "I">>, <<"s", "e", "c", "a", "n", "a">>, <<"a", "R",
          "q", "a", "r", "a">>, <<"s", "u", "n", "d", "a", "r", "a">>, <<"m", "a", "R", "q", "a", "l", "a">>,
          <<"m", "a", "n", "T", "a", "r", "a">>, <<"m", "a", "N", "g", "a", "l", "a">>, <<"p", "a", "w",
          "a">>, <<"p", "i", "R", "w", "a">>, <<"z", "a", "R", "q", "a">>, <<"u", "r", "d", "a">>, <<"g", "a",
          "r", "d", "a">>, <<"S", "a", "m", "a">>, <<"s", "U", "d">>, <<"O", "q", "a">>, <<"A", "r", "d", "r",
          "a">>, <<"h", "f", "d", "a">>, <<"h", "r", "a", "d", "a">>, <<"p", "A", "R", "q", "a">>, <<"B", "A",
          "R", "q", "a", "l", "a">>, <<"B", "A", "R", "q", "a">>, <<"l", "o", "h", "A", "R", "q", "a">>,
          <<"k", "a", "d", "a", "r", "a">>, <<"k", "a", "n", "d", "a", "r", "a">>, <<"k", "a", "d", "a", "l",
          "a">>, <<"t", "a", "r", "u", "R", "a">>, <<"t", "a", "l", "u", "n", "a">>, <<"k", "a", "l", "m",
          "A", "z", "a">>, <<"b", "f", "h", "a", "t">>, <<"m", "a", "h", "a", "t">>, <<"s", "o", "m", "a">>,
          <<"s", "O", "D", "a", "r", "m", "a">>, <<"v", "i", "k", "a", "l", "a">>, <<"n", "i", "z", "P", "a",
          "l", "a">>, <<"p", "u", "z", "k", "a", "l", "a">>, <<"p", "i", "p", "p", "a", "l", "I">>, <<"h",
          "a", "r", "i", "t", "a", "k", "I">>, <<"h", "a", "r", "I", "t", "a", "k", "I">>, <<"k", "o", "S",
          "A", "t", "a", "k", "I">>, <<"S", "a", "m", "I">>, <<"v", "a", "r", "I">>, <<"S", "a", "r", "I">>,
          <<"p", "f", "T", "i", "v", "I">>, <<"k", "r", "o", "z", "w", "u">>, <<"m", "A", "t", "A", "m", "a",
          "h", "a">>, <<"p", "i", "t", "A", "m", "a", "h", "a">>>>],
      [name |-> "BAHU_ADI", entries |-> <<
          <<"b", "a", "h", "u">>, <<"p", "a", "d", "D", "a", "t", "i">>, <<"a", "N", "k", "a", "t", "i">>,
          <<"a", "Y", "c", "a", "t", "i">>, <<"a", "M", "h", "a", "t", "i">>, <<"v", "a", "M", "h", "a", "t",
          "i">>, <<"S", "a", "k", "a", "w", "i">>, <<"S", "a", "k", "t", "i">>, <<"S", "A", "r", "i">>, <<"v",
          "A", "r", "i", " ">>, <<"r", "A", "t", "i">>, <<"r", "A", "D", "i">>, <<"S", "A", "D", "i">>, <<"a",
          "h", "i">>, <<"k", "a", "p", "i">>, <<"y", "a", "z", "w", "i">>, <<"m", "u", "n", "i">>, <<"c", "a",
          "R", "q", "a">>, <<"a", "r", "A", "l", "a">>, <<"k", "a", "m", "a", "l", "a">>, <<"k", "f", "p",
          "A", "R", "a">>, <<"v", "i", "k", "a", "w", "a">>, <<"v", "i", "S", "A", "l", "a">>, <<"v", "i",
          "S", "a", "N", "k", "a", "w", "a">>, <<"B", "a", "r", "u", "j", "a">>, <<"D", "v", "a", "j", "a">>,
          <<"k", "a", "l", "y", "A", "R", "a">>, <<"u", "d", "A", "r", "a">>, <<"p", "u", "r", "A", "R",
          "a">>, <<"a", "h", "a", "n">>>>],
      [name |-> "ASHVAPATI_ADI", entries |-> <<
          <<"a", "S", "v", "a", "p", "a", "t", "i">>, <<"S", "a", "t", "a", "p", "a", "t", "i">>, <<"D", "a",
          "n", "a", "p", "a", "t", "i">>, <<"g", "a", "R", "a", "p", "a", "t", "i">>, <<"r", "A", "z", "w",
          "r", "a", "p", "a", "t", "i">>, <<"k", "u", "l", "a", "p", "a", "t", "i">>, <<"g", "f", "h", "a",
          "p", "a", "t", "i">>, <<"D", "A", "n", "y", "a", "p", "a", "t", "i">>, <<"p", "a", "S", "u", "p",
          "a", "t", "i">>, <<"D", "a", "r", "m", "a", "p", "a", "t", "i">>, <<"s", "a", "B", "A", "p", "a",
          "t", "i">>, <<"p", "r", "A", "R", "a", "p", "a", "t", "i">>, <<"k", "z", "e", "t", "r", "a", "p",
          "a", "t", "i">>>>],
      [name |-> "UTSA_ADI", entries |-> <<
          <<"u", "t", "s", "a">>, <<"u", "d", "a", "p", "A", "n", "a">>, <<"v", "i", "k", "a", "r", "a">>,
          <<"v", "i", "n", "o", "d", "a">>, <<"m", "a", "h", "A", "n", "a", "d", "a">>, <<"m", "a", "h", "A",
          "n", "a", "s", "a">>, <<"m", "a", "h", "A", "p", "r", "A", "R", "a">>, <<"t", "a", "r", "u", "R",
          "a">>, <<"t", "a", "l", "u", "n", "a">>, <<"b", "a", "z", "k", "a", "y", "A", "s", "e">>, <<"D",
          "e", "n", "u">>, <<"p", "f", "T", "i", "v", "I">>, <<"p", "a", "N", "k", "t", "i">>, <<"j", "a",
          "g", "a", "t", "I">>, <<"t", "r", "i", "z", "w", "u", "B">>, <<"a", "n", "u", "z", "w", "u", "B">>,
          <<"j", "a", "n", "a", "p", "a", "d", "a">>, <<"B", "a", "r", "a", "t", "a">>, <<"u", "S", "I", "n",
          "a", "r", "a">>, <<"g", "r", "I", "z", "m", "a">>, <<"p", "I", "l", "u">>, <<"k", "u", "l", "a">>,
          <<"u", "d", "a", "s", "T", "A", "n", "a">>, <<"p", "f", "z", "a", "d", "a", "M", "S", "e">>, <<"B",
          "a", "l", "l", "a", "k", "I", "y", "a">>, <<"r", "a", "T", "a", "n", "t", "a", "r", "a">>, <<"m",
          "a", "D", "y", "a", "n", "d", "i", "n", "a">>, <<"b", "f", "h", "a", "t">>, <<"m", "a", "h", "a",
          "t">>, <<"s", "a", "t", "t", "v", "a", "t">>, <<"k", "u", "r", "u">>, <<"p", "a", "Y", "c", "A",
          "l", "a">>, <<"i", "n", "d", "r", "A", "v", "a", "s", "A", "n", "a">>, <<"u", "z", "R", "i", "h">>,
          <<"k", "a", "k", "u", "B">>, <<"s", "u", "v", "a", "r", "R", "a">>, <<"d", "e", "v", "a">>>>],
      [name |-> "BAAHU_ADI", entries |-> <<
          <<"b", "A", "h", "u">>, <<"u", "p", "a", "b", "A", "h", "u">>, <<"u", "p", "a", "v", "A", "k",
          "u">>, <<"n", "i", "v", "A", "k", "u">>, <<"S", "i", "v", "A", "k", "u">>, <<"v", "a", "w", "A",
          "k", "u">>, <<"u", "p", "a", "n", "i", "n", "d", "u">>, <<"u", "p", "a", "b", "i", "n", "d", "u">>,
          <<"v", "f", "z", "a", "l", "I">>, <<"v", "f", "k", "a", "l", "A">>, <<"c", "U", "q", "A">>, <<"b",
          "a", "l", "A", "k", "A">>, <<"m", "U", "z", "i", "k", "A">>, <<"k", "u", "S", "a", "l", "A">>,
          <<"B", "a", "g", "a", "l", "A">>, <<"C", "a", "g", "a", "l", "A">>, <<"D", "r", "u", "v", "a", "k",
          "A">>, <<"D", "u", "v", "a", "k", "A">>, <<"s", "u", "m", "i", "t", "r", "A">>, <<"d", "u", "r",
          "m", "i", "t", "r", "A">>, <<"p", "u", "z", "k", "a", "r", "a", "s", "a", "d">>, <<"a", "n", "u",
          "h", "a", "r", "a", "t">>, <<"d", "e", "v", "a", "S", "a", "r", "m", "a", "n">>, <<"a", "g", "n",
          "i", "S", "a", "r", "m", "a", "n">>, <<"B", "a", "d", "r", "a", "S", "a", "r", "m", "a", "n">>,
          <<"s", "u", "S", "a", "r", "m", "a", "n">>, <<"k", "u", "n", "A", "m", "a", "n">>, <<"s", "u", "n",
          "A", "m", "a", "n">>, <<"p", "a", "Y", "c", "a", "n">>, <<"s", "a", "p", "t", "a", "n">>, <<"a",
          "z", "w", "a", "n">>, <<"a", "m", "i", "t", "O", "j", "a", "s", "a">>, <<"s", "u", "D", "A", "v",
          "a", "t">>, <<"u", "d", "a", "Y", "c", "u">>, <<"S", "i", "r", "a", "s">>, <<"m", "A", "z", "a">>,
          <<"S", "a", "r", "A", "v", "i", "n">>, <<"m", "a", "r", "I", "c", "I">>, <<"k", "S", "e", "m", "a",
          "v", "f", "d", "D", "i", "n">>, <<"S", "f", "N", "K", "a", "l", "a", "t", "o", "d", "i", "n">>,
          <<"K", "a", "r", "a", "n", "A", "d", "i", "n">>, <<"n", "a", "g", "a", "r", "a", "m", "a", "r", "d",
          "i", "n">>, <<"p", "r", "A", "k", "A", "r", "a", "m", "a", "r", "d", "i", "n">>, <<"l", "o", "m",
          "a", "n">>, <<"a", "j", "I", "g", "a", "r", "t", "a">>, <<"k", "f", "z", "r", "a">>, <<"y", "u",
          "D", "i", "z", "W", "i", "r", "a">>, <<"a", "r", "j", "u", "n", "a">>, <<"s", "A", "m", "b", "a">>,
          <<"g", "a", "d", "a">>, <<"p", "r", "a", "d", "y", "u", "m", "n", "a">>, <<"r", "A", "m", "a">>,
          <<"u", "d", "a", "N", "k", "u">>>>],
      [name |-> "KUNJA_ADI", entries |-> <<
          <<"k", "u", "Y", "j", "a">>, <<"b", "r", "a", "D", "n", "a">>, <<"S", "a", "N", "K", "a">>, <<"B",
          "a", "s", "m", "a", "n">>, <<"g", "a", "R", "a">>, <<"l", "o", "m", "a", "n">>, <<"S", "a", "W",
          "a">>, <<"S", "A", "k", "a">>, <<"S", "A", "k", "a", "w", "a">>, <<"S", "u", "R", "q", "A">>, <<"S",
          "u", "B", "a">>, <<"v", "i", "p", "A", "S", "a">>, <<"s", "k", "a", "n", "d", "a">>, <<"s", "t",
          "a", "m", "B", "a">>>>],
      [name |-> "NADA_ADI", entries |-> <<
          <<"n", "a", "q", "a">>, <<"c", "a", "r", "a">>, <<"b", "a", "k", "a">>, <<"m", "u", "Y", "j", "a">>,
          <<"i", "t", "i", "k", "a">>, <<"i", "t", "i", "S", "a">>, <<"u", "p", "a", "k", "a">>, <<"l", "a",
          "m", "a", "k", "a">>, <<"S", "a", "l", "a", "N", "k", "u">>, <<"S", "a", "l", "a", "N", "k", "a",
          "m">>, <<"s", "a", "p", "t", "a", "l", "a">>, <<"v", "A", "j", "a", "p", "y", "a">>, <<"t", "i",
          "k", "a">>, <<"a", "g", "n", "i", "S", "a", "r", "m", "a", "n">>, <<"p", "r", "A", "R", "a">>,
          <<"n", "a", "r", "a">>, <<"s", "A", "y", "a", "k", "a">>, <<"d", "A", "s", "a">>, <<"m", "i", "t",
          "r", "a">>, <<"d", "v", "I", "p", "a">>, <<"p", "i", "N", "g", "a", "r", "a">>, <<"p", "i", "N",
          "g", "a", "l", "a">>, <<"k", "i", "N", "k", "a", "r", "a">>, <<"k", "i", "N", "k", "a", "l", "a">>,
          <<"k", "A", "t", "a", "r", "a">>, <<"k", "A", "t", "a", "l", "a">>, <<"k", "A", "S", "y", "a">>,
          <<"k", "A", "S", "y", "a", "p", "a">>, <<"k", "A", "v", "y", "a">>, <<"a", "j", "a">>, <<"a", "m",
          "u", "z", "y", "a">>, <<"k", "f", "z", "R", "a">>, <<"r", "a", "R", "a">>, <<"a", "m", "i", "t",
          "r", "a">>, <<"l", "i", "g", "u">>, <<"c", "i", "t", "r", "a">>, <<"k", "u", "m", "A", "r", "a">>,
          <<"k", "r", "o", "z", "w", "u">>, <<"k", "r", "o", "z", "w", "a", "m">>, <<"l", "o", "h", "a">>,
          <<"d", "u", "r", "g", "a">>, <<"s", "t", "a", "m", "B", "a">>, <<"S", "i", "M", "S", "i", "p",
          "A">>, <<"a", "g", "r", "a">>, <<"t", "f", "R", "a">>, <<"S", "a", "k", "a", "w", "a">>, <<"s", "u",
          "m", "a", "n", "a", "s">>, <<"s", "u", "m", "a", "t", "a">>, <<"m", "i", "m", "a", "t", "a">>,
          <<"f", "k">>, <<"j", "a", "t">>, <<"y", "u", "g", "a", "n", "D", "a", "r", "a">>, <<"h", "a", "M",
          "s", "a", "k", "a">>, <<"d", "a", "R", "q", "i", "n">>, <<"h", "a", "s", "t", "i", "n">>, <<"p",
          "a", "Y", "c", "A", "l", "a">>, <<"c", "a", "m", "a", "s", "i", "n">>, <<"s", "u", "k", "f", "t",
          "y", "a">>, <<"s", "T", "i", "r", "a", "k", "a">>, <<"b", "r", "A", "h", "m", "a", "R", "a">>,
          <<"c", "a", "w", "a", "k", "a">>, <<"b", "a", "d", "a", "r", "a">>, <<"a", "S", "v", "a", "l",
          "a">>, <<"K", "a", "r", "a", "p", "a">>, <<"k", "A", "m", "u", "k", "a">>, <<"v", "r", "a", "h",
          "m", "a", "d", "a", "t", "t", "a">>, <<"u", "d", "u", "m", "b", "a", "r", "a">>, <<"S", "o", "R",
          "a">>, <<"a", "l", "o", "h", "a">>, <<"d", "a", "R", "q", "a">>>>],
      [name |-> "BIDA_ADI", entries |-> <<
          <<"b", "i", "d", "a">>, <<"u", "r", "v", "a">>, <<"k", "a", "S", "y", "a", "p", "a">>, <<"k", "u",
          "S", "i", "k", "a">>, <<"B", "a", "r", "a", "d", "v", "A", "j", "a">>, <<"u", "p", "a", "m", "a",
          "n", "y", "u">>, <<"k", "i", "l", "A", "l", "a", "p", "a">>, <<"k", "i", "d", "a", "r", "B", "a">>,
          <<"v", "i", "S", "v", "A", "n", "a", "r", "a">>, <<"f", "z", "w", "i", "z", "e", "R", "a">>, <<"f",
          "t", "a", "B", "A", "g", "a">>, <<"h", "a", "r", "y", "a", "S", "v", "a">>, <<"p", "r", "i", "y",
          "a", "k", "a">>, <<"A", "p", "a", "s", "t", "a", "m", "b", "a">>, <<"k", "U", "c", "a", "v", "A",
          "r", "a">>, <<"S", "a", "r", "a", "d", "v", "a", "t">>, <<"S", "u", "n", "a", "k", "a">>, <<"D",
          "e", "n", "u">>, <<"g", "o", "p", "a", "v", "a", "n", "a">>, <<"S", "i", "g", "r", "u">>, <<"b",
          "i", "n", "d", "u">>, <<"B", "A", "j", "a", "n", "a">>, <<"a", "S", "v", "A", "v", "a", "t", "A",
          "n", "a">>, <<"S", "y", "A", "m", "A", "k", "a">>, <<"S", "y", "a", "m", "A", "k", "a">>, <<"S",
          "y", "A", "p", "a", "r", "R", "a">>, <<"h", "a", "r", "i", "t", "a">>, <<"k", "i", "n", "d", "A",
          "s", "a">>, <<"v", "a", "h", "r", "a", "s", "k", "a">>, <<"a", "r", "k", "a", "l", "U", "z", "a">>,
          <<"v", "a", "D", "y", "o", "z", "a">>, <<"v", "i", "z", "R", "u", "v", "f", "d", "D", "a">>, <<"p",
          "r", "a", "t", "i", "b", "o", "D", "a">>, <<"r", "a", "T", "A", "n", "t", "a", "r", "a">>, <<"r",
          "a", "T", "I", "t", "a", "r", "a">>, <<"g", "a", "v", "i", "z", "W", "i", "r", "a">>, <<"n", "i",
          "z", "A", "d", "a">>, <<"m", "a", "W", "a", "r", "a">>, <<"m", "f", "d", "a">>, <<"p", "u", "n",
          "a", "r", "B", "U">>, <<"p", "u", "t", "r", "a">>, <<"d", "u", "h", "i", "t", "f">>, <<"n", "a",
          "n", "A", "n", "d", "f">>, <<"p", "a", "r", "a", "s", "t", "r", "I">>>>],
      [name |-> "GARGA_ADI", entries |-> <<
          <<"g", "a", "r", "g", "a">>, <<"v", "a", "t", "s", "a">>, <<"v", "A", "j", "A", "s", "e">>, <<"s",
          "a", "M", "s", "k", "f", "t", "i">>, <<"a", "j", "a">>, <<"v", "y", "A", "G", "r", "a", "p", "A",
          "t">>, <<"v", "i", "d", "a", "B", "f", "t">>, <<"p", "r", "A", "c", "I", "n", "a", "y", "o", "g",
          "a">>, <<"a", "g", "a", "s", "t", "i">>, <<"p", "u", "l", "a", "s", "t", "i">>, <<"r", "e", "B",
          "a">>, <<"a", "g", "n", "i", "v", "e", "S", "a">>, <<"S", "a", "N", "K", "a">>, <<"S", "a", "W",
          "a">>, <<"G", "U", "m", "a">>, <<"a", "v", "a", "w", "a">>, <<"c", "a", "m", "a", "s", "a">>, <<"D",
          "a", "n", "a", "Y", "j", "a", "y", "a">>, <<"m", "a", "n", "a", "s", "a">>, <<"v", "f", "k", "z",
          "a">>, <<"v", "i", "S", "v", "A", "v", "a", "s", "u">>, <<"j", "a", "n", "a", "m", "A", "n", "a">>,
          <<"l", "o", "h", "i", "t", "a">>, <<"S", "a", "M", "s", "i", "t", "a">>, <<"b", "a", "B", "r",
          "u">>, <<"m", "a", "R", "q", "u">>, <<"m", "a", "k", "z", "u">>, <<"a", "l", "i", "g", "u">>, <<"S",
          "a", "N", "k", "u">>, <<"l", "i", "g", "u">>, <<"g", "u", "l", "u">>, <<"m", "a", "n", "t", "u">>,
          <<"j", "i", "g", "I", "z", "u">>, <<"m", "a", "n", "u">>, <<"t", "a", "n", "t", "u">>, <<"m", "a",
          "n", "A", "y", "I">>, <<"B", "U", "t", "a">>, <<"k", "a", "T", "a", "k", "a">>, <<"k", "a", "z",
          "a">>, <<"t", "a", "R", "q", "a">>, <<"v", "a", "t", "a", "R", "q", "a">>, <<"k", "a", "p", "i">>,
          <<"k", "a", "t", "a">>, <<"k", "u", "r", "u", "k", "a", "t", "a">>, <<"a", "n", "a", "q", "u",
          "H">>, <<"k", "a", "R", "v", "a">>, <<"S", "a", "k", "a", "l", "a">>, <<"g", "o", "k", "a", "k",
          "z", "a">>, <<"a", "g", "a", "s", "t", "y", "a">>, <<"k", "u", "R", "q", "i", "n", "a">>, <<"y",
          "a", "j", "Y", "a", "v", "a", "l", "k", "a">>, <<"u", "B", "a", "y", "a">>, <<"j", "A", "t", "a">>,
          <<"v", "i", "r", "o", "h", "i", "t", "a">>, <<"v", "f", "z", "a", "g", "a", "R", "a">>, <<"r", "a",
          "h", "U", "g", "a", "R", "a">>, <<"S", "a", "R", "q", "i", "l", "a">>, <<"v", "a", "R", "a">>,
          <<"k", "a", "c", "u", "l", "u", "k", "a">>, <<"m", "u", "d", "g", "a", "l", "a">>, <<"m", "u", "s",
          "a", "l", "a">>, <<"p", "a", "r", "A", "S", "a", "r", "a">>, <<"j", "a", "t", "U", "k", "a", "r",
          "R", "a">>, <<"m", "A", "n", "t", "r", "i", "t", "a">>, <<"s", "a", "M", "h", "i", "t", "a">>,
          <<"a", "S", "m", "a", "r", "a", "T", "a">>, <<"S", "a", "r", "k", "a", "r", "A", "k", "z", "a">>,
          <<"p", "U", "t", "i", "m", "A", "z", "a">>, <<"s", "T", "U", "R", "a">>, <<"a", "r", "a", "r", "a",
          "k", "a">>, <<"p", "i", "N", "g", "a", "l", "a">>, <<"k", "f", "z", "R", "a">>, <<"g", "o", "l",
          "u", "n", "d", "a">>, <<"u", "l", "U", "k", "a">>, <<"t", "i", "t", "i", "k", "z", "a">>, <<"B",
          "i", "z", "a", "j">>, <<"B", "a", "q", "i", "t", "a">>, <<"B", "a", "R", "q", "i", "t", "a">>,
          <<"d", "a", "l", "B", "a">>, <<"c", "i", "k", "i", "t", "a">>, <<"d", "e", "v", "a", "h", "U">>,
          <<"i", "n", "d", "r", "a", "h", "U">>, <<"e", "k", "a", "l", "U">>, <<"p", "i", "p", "p", "a", "l",
          "U">>, <<"v", "f", "d", "a", "g", "n", "i">>, <<"j", "a", "m", "a", "d", "a", "g", "n", "i">>,
          <<"s", "u", "l", "o", "B", "i", "n">>, <<"u", "k", "a", "t", "T", "a">>, <<"k", "u", "w", "I", "g",
          "u">>>>],
      [name |-> "ASHVA_ADI", entries |-> <<
          <<"a", "S", "v", "a">>, <<"a", "S", "m", "a", "n">>, <<"S", "a", "N", "K", "a">>, <<"p", "a", "w",
          "u">>, <<"r", "o", "h", "i", "R", "a">>, <<"K", "a", "r", "j", "U", "r", "a">>, <<"K", "a", "r",
          "j", "U", "l", "a">>, <<"p", "i", "Y", "j", "U", "r", "a">>, <<"B", "a", "q", "i", "l", "a">>,
          <<"B", "a", "R", "q", "i", "l", "a">>, <<"B", "a", "q", "i", "t", "a">>, <<"B", "a", "R", "q", "i",
          "t", "a">>, <<"B", "a", "R", "q", "i", "k", "a">>, <<"p", "r", "a", "h", "f", "t", "a">>, <<"r",
          "o", "m", "A", "d", "a">>, <<"k", "z", "a", "t", "r", "a">>, <<"g", "r", "I", "v", "A">>, <<"k",
          "A", "S", "a">>, <<"g", "o", "l", "A", "N", "k", "y", "a">>, <<"a", "r", "k", "a">>, <<"s", "v",
          "a", "n", "a">>, <<"D", "v", "a", "n", "a">>, <<"p", "A", "d", "a">>, <<"c", "a", "k", "r", "a">>,
          <<"k", "u", "l", "a">>, <<"p", "a", "v", "i", "t", "r", "a">>, <<"g", "o", "m", "i", "n">>, <<"S",
          "y", "A", "m", "a">>, <<"D", "U", "m", "a">>, <<"D", "U", "m", "r", "a">>, <<"v", "A", "g", "m",
          "i", "n">>, <<"v", "i", "S", "v", "A", "n", "a", "r", "a">>, <<"k", "u", "w", "a">>, <<"v", "e",
          "S", "a">>, <<"S", "a", "p", "a">>, <<"n", "a", "t", "t", "a">>, <<"t", "a", "q", "a">>, <<"n", "a",
          "q", "a">>, <<"g", "r", "I", "z", "m", "a">>, <<"a", "r", "h", "a">>, <<"v", "i", "S", "a", "m",
          "y", "a">>, <<"v", "i", "S", "A", "l", "A">>, <<"g", "i", "r", "i">>, <<"c", "a", "p", "a", "l",
          "a">>, <<"c", "u", "n", "a", "m", "a">>, <<"d", "A", "s", "a", "k", "a">>, <<"v", "E", "l", "y",
          "a">>, <<"D", "a", "r", "m", "a">>, <<"A", "n", "a", "q", "u", "h", "r", "a">>, <<"p", "u", "M",
          "s", "i", "j", "A", "t", "a">>, <<"a", "r", "j", "u", "n", "a">>, <<"S", "U", "d", "r", "a", "k",
          "a">>, <<"s", "u", "m", "a", "n", "a", "s">>, <<"d", "u", "r", "m", "a", "n", "a", "s">>, <<"k",
          "z", "A", "n", "t", "a">>, <<"p", "r", "A", "c", "y", "a">>, <<"k", "i", "t", "a">>, <<"k", "A",
          "R", "a">>, <<"c", "u", "m", "b", "a">>, <<"S", "r", "a", "v", "i", "z", "W", "A">>, <<"v", "I",
          "k", "z", "y", "a">>, <<"p", "a", "v", "i", "n", "d", "A">>, <<"A", "t", "r", "e", "y", "a">>,
          <<"k", "u", "t", "s", "a">>, <<"A", "t", "a", "v", "a">>, <<"k", "i", "t", "a", "v", "a">>, <<"S",
          "i", "v", "a">>, <<"K", "a", "d", "i", "r", "a">>, <<"B", "A", "r", "a", "d", "v", "A", "j", "a">>>>],
      [name |-> "SHIVA_ADI", entries |-> <<
          <<"S", "i", "v", "a">>, <<"p", "r", "O", "z", "W", "a">>, <<"p", "r", "O", "z", "W", "i", "k",
          "a">>, <<"c", "a", "R", "q", "a">>, <<"j", "a", "m", "B", "a">>, <<"m", "u", "n", "i">>, <<"s", "a",
          "n", "D", "i">>, <<"B", "U", "r", "i">>, <<"k", "u", "W", "A", "r", "a">>, <<"a", "n", "a", "B",
          "i", "m", "l", "A", "n", "a">>, <<"k", "a", "k", "u", "t", "s", "T", "a">>, <<"k", "a", "h", "o",
          "q", "a">>, <<"l", "e", "K", "a">>, <<"r", "o", "D", "a">>, <<"K", "a", "Y", "j", "a", "n", "a">>,
          <<"k", "o", "h", "a", "q", "a">>, <<"p", "i", "z", "w", "a">>, <<"h", "e", "h", "a", "y", "a">>,
          <<"K", "a", "Y", "j", "A", "r", "a">>, <<"K", "a", "Y", "j", "A", "l", "a">>, <<"s", "u", "r", "o",
          "h", "i", "k", "A">>, <<"p", "a", "r", "R", "a">>, <<"k", "a", "h", "U", "z", "a">>, <<"p", "a",
          "r", "i", "l", "a">>, <<"v", "a", "t", "a", "R", "q", "a">>, <<"t", "f", "R", "a">>, <<"k", "a",
          "r", "R", "a">>, <<"k", "z", "I", "r", "a", "h", "f", "d", "a">>, <<"j", "a", "l", "a", "h", "f",
          "d", "a">>, <<"p", "a", "r", "i", "z", "i", "k", "a">>, <<"j", "a", "w", "i", "l", "i", "k", "a">>,
          <<"g", "o", "P", "i", "l", "i", "k", "a">>, <<"b", "a", "D", "i", "r", "i", "k", "A">>, <<"m", "a",
          "Y", "j", "I", "r", "a", "k", "a">>, <<"v", "f", "z", "R", "i", "k", "a">>, <<"r", "e", "K", "a">>,
          <<"A", "l", "e", "K", "a", "n", "a">>, <<"v", "i", "S", "r", "a", "v", "a", "R", "a">>, <<"r", "a",
          "v", "a", "R", "a">>, <<"v", "a", "r", "t", "a", "n", "A", "k", "z", "a">>, <<"p", "i", "w", "a",
          "k", "a">>, <<"p", "i", "w", "A", "k", "a">>, <<"t", "f", "k", "z", "A", "k", "a">>, <<"n", "a",
          "B", "A", "k", "a">>, <<"U", "r", "R", "a", "n", "A", "B", "a">>, <<"j", "a", "r", "a", "t", "k",
          "A", "r", "u">>, <<"u", "t", "k", "z", "i", "p", "A">>, <<"r", "o", "h", "i", "t", "i", "k", "a">>,
          <<"A", "r", "y", "a", "S", "v", "e", "t", "a">>, <<"s", "u", "p", "i", "z", "w", "a">>, <<"K", "a",
          "r", "j", "U", "r", "a", "k", "a", "r", "R", "a">>, <<"m", "a", "s", "U", "r", "a", "k", "a", "r",
          "R", "a">>, <<"t", "U", "R", "a", "k", "a", "r", "R", "a">>, <<"m", "a", "y", "U", "r", "a", "k",
          "a", "r", "R", "a">>, <<"K", "a", "q", "a", "r", "a", "k", "a">>, <<"t", "a", "k", "z", "a", "n">>,
          <<"f", "z", "w", "i", "z", "e", "R", "a">>, <<"g", "a", "N", "g", "A">>, <<"v", "i", "p", "A", "S",
          "a">>, <<"y", "a", "s", "k", "a">>, <<"l", "a", "h", "r", "a">>, <<"d", "r", "u", "h", "y", "u">>,
          <<"a", "y", "a", "H", "s", "T", "U", "R", "a">>, <<"B", "a", "l", "a", "n", "d", "a", "n", "a">>,
          <<"v", "i", "r", "U", "p", "A", "k", "z", "a">>, <<"B", "U", "m", "i">>, <<"i", "l", "A">>, <<"s",
          "a", "p", "a", "t", "n", "I">>, <<"d", "v", "y", "a", "c", "a">>>>],
      [name |-> "REVATI_ADI", entries |-> <<
          <<"r", "e", "v", "a", "t", "I">>, <<"a", "S", "v", "a", "p", "A", "l", "I">>, <<"m", "a", "R", "i",
          "p", "A", "l", "I">>, <<"d", "v", "A", "r", "a", "p", "A", "l", "I">>, <<"v", "f", "k", "a", "v",
          "a", "Y", "c", "i", "n">>, <<"v", "f", "k", "a", "b", "a", "n", "D", "u">>, <<"v", "f", "k", "a",
          "g", "r", "A", "h", "a">>, <<"k", "a", "r", "R", "a", "g", "r", "A", "h", "a">>, <<"d", "a", "R",
          "q", "a", "g", "r", "A", "h", "a">>, <<"k", "u", "k", "k", "U", "w", "A", "k", "z", "a">>, <<"k",
          "a", "k", "u", "d", "A", "k", "z", "a">>, <<"c", "A", "m", "a", "r", "a", "g", "r", "A", "h", "a">>>>],
      [name |-> "SHUBHRA_ADI", entries |-> <<
          <<"S", "u", "B", "r", "a">>, <<"v", "i", "z", "w", "a", "p", "u", "r", "a">>>>],
      [name |-> "KALYANI_ADI", entries |-> <<
          <<"k", "a", "l", "y", "A", "R", "I">>, <<"s", "u", "B", "a", "g", "A">>, <<"d", "u", "r", "B", "a",
          "g", "A">>, <<"b", "a", "n", "D", "a", "k", "I">>, <<"a", "n", "u", "d", "f", "z", "w", "i">>,
          <<"a", "n", "u", "s", "f", "z", "w", "i">>, <<"j", "a", "r", "a", "t", "I">>, <<"b", "a", "l", "I",
          "v", "a", "r", "d", "I">>, <<"j", "y", "e", "z", "W", "A">>, <<"k", "a", "n", "i", "z", "W", "A">>,
          <<"m", "a", "D", "y", "a", "m", "A">>, <<"p", "a", "r", "a", "s", "t", "r", "I">>>>],
      [name |-> "BHIKSHA_ADI", entries |-> <<
          <<"B", "i", "k", "z", "A">>, <<"g", "a", "r", "B", "i", "R", "I">>, <<"k", "z", "e", "t", "r",
          "a">>, <<"k", "a", "r", "I", "z", "a">>, <<"a", "N", "g", "A", "r", "a">>, <<"c", "a", "r", "m",
          "i", "n">>, <<"D", "a", "r", "m", "i", "n">>, <<"s", "a", "h", "a", "s", "r", "a">>, <<"y", "u",
          "v", "a", "t", "i">>, <<"p", "a", "d", "A", "t", "i">>, <<"p", "a", "d", "D", "a", "t", "i">>,
          <<"a", "T", "a", "r", "v", "a", "n">>, <<"d", "a", "k", "z", "i", "R", "A">>, <<"B", "U", "t", "a">>>>],
      [name |-> "KHANDIKA_ADI", entries |-> <<
          <<"K", "a", "R", "q", "i", "k", "A">>, <<"v", "a", "q", "a", "v", "A">>, <<"k", "z", "u", "d", "r",
          "a", "k", "a", "m", "A", "l", "a">>, <<"B", "i", "k", "z", "u", "k", "a">>, <<"S", "u", "k", "a">>,
          <<"u", "l", "U", "k", "a">>, <<"S", "v", "a", "n">>, <<"y", "u", "g", "a">>, <<"a", "h", "a", "n">>,
          <<"v", "a", "r", "a", "t", "r", "A">>, <<"h", "a", "l", "a", "b", "a", "n", "D", "a">>>>],
      [name |-> "PASHA_ADI", entries |-> <<
          <<"p", "A", "S", "a">>, <<"t", "f", "R", "a">>, <<"D", "U", "m", "a">>, <<"v", "A", "t", "a">>,
          <<"a", "N", "g", "A", "r", "a">>, <<"p", "o", "t", "a">>, <<"b", "A", "l", "a", "k", "a">>, <<"p",
          "i", "w", "a", "k", "a">>, <<"p", "i", "w", "A", "k", "a">>, <<"S", "a", "k", "a", "w", "a">>,
          <<"h", "a", "l", "a">>, <<"n", "a", "q", "a">>, <<"v", "a", "n", "a">>>>],
      [name |-> "RAJANYA_ADI", entries |-> <<
          <<"r", "A", "j", "a", "n", "y", "a">>, <<"A", "n", "f", "t", "a">>, <<"b", "A", "B", "r", "a", "v",
          "y", "a">>, <<"S", "A", "l", "a", "N", "k", "A", "y", "a", "n", "a">>, <<"d", "E", "v", "a", "y",
          "A", "t", "a", "v", "a">>, <<"d", "E", "v", "a", "y", "A", "t", "a">>, <<"v", "r", "I", "q", "a">>,
          <<"v", "a", "r", "a", "t", "r", "a">>, <<"j", "A", "l", "a", "M", "D", "a", "r", "A", "y", "a", "R",
          "a">>, <<"r", "A", "j", "A", "y", "a", "n", "a">>, <<"t", "e", "l", "u">>, <<"A", "t", "m", "a",
          "k", "A", "m", "e", "y", "a">>, <<"a", "m", "b", "a", "r", "I", "z", "a", "p", "u", "t", "r", "a">>,
          <<"v", "a", "s", "A", "t", "i">>, <<"b", "E", "l", "v", "a", "v", "a", "n", "a">>, <<"S", "E", "l",
          "U", "z", "a">>, <<"u", "d", "u", "m", "b", "a", "r", "a">>, <<"t", "I", "v", "r", "a">>, <<"b",
          "E", "l", "v", "a", "l", "a">>, <<"A", "r", "j", "u", "n", "A", "y", "a", "n", "a">>, <<"s", "a",
          "M", "p", "r", "i", "y", "a">>, <<"d", "a", "k", "z", "i">>, <<"U", "r", "R", "a", "n", "A", "B",
          "a">>>>],
      [name |-> "BHAURIKI_ADI", entries |-> <<
          <<"B", "O", "r", "i", "k", "i">>, <<"v", "E", "p", "e", "y", "a">>, <<"B", "O", "l", "i", "k",
          "i">>, <<"c", "E", "p", "a", "y", "a", "t", "a">>, <<"c", "E", "w", "a", "y", "a", "t", "a">>,
          <<"k", "A", "R", "e", "y", "a">>, <<"v", "A", "R", "i", "j", "a", "k", "a">>, <<"v", "A", "R", "i",
          "k", "A", "j", "y", "a">>, <<"v", "A", "l", "i", "k", "A", "j", "y", "a">>, <<"s", "E", "k", "a",
          "y", "a", "t", "a">>, <<"v", "E", "k", "a", "y", "a", "t", "a">>>>],
      [name |-> "AISHUKARI_ADI", entries |-> <<
          <<"E", "z", "u", "k", "A", "r", "i">>, <<"s", "A", "r", "a", "s", "y", "A", "y", "a", "n", "a">>,
          <<"s", "A", "r", "a", "s", "A", "y", "a", "n", "a">>, <<"c", "A", "n", "d", "r", "A", "y", "a", "R",
          "a">>, <<"d", "v", "y", "A", "k", "z", "A", "y", "a", "R", "a">>, <<"t", "r", "y", "A", "k", "z",
          "A", "y", "a", "R", "a">>, <<"O", "q", "A", "y", "a", "n", "a">>, <<"j", "O", "l", "A", "y", "a",
          "n", "a">>, <<"K", "A", "q", "A", "y", "a", "n", "a">>, <<"d", "A", "s", "a", "m", "i", "t", "r",
          "i">>, <<"d", "A", "s", "a", "m", "i", "t", "r", "A", "y", "a", "R", "a">>, <<"S", "O", "d", "r",
          "A", "y", "a", "R", "a">>, <<"d", "A", "k", "z", "A", "y", "a", "R", "a">>, <<"S", "a", "y", "a",
          "R", "q", "A", "y", "a", "n", "a">>, <<"S", "A", "y", "a", "R", "q", "A", "y", "a", "n", "a">>,
          <<"t", "A", "r", "k", "z", "y", "A", "y", "a", "R", "a">>, <<"S", "O", "B", "r", "A", "y", "a", "R",
          "a">>, <<"s", "O", "v", "I", "r", "a">>, <<"s", "O", "v", "I", "r", "A", "y", "a", "R", "a">>,
          <<"S", "a", "p", "a", "R", "q", "a">>, <<"S", "a", "y", "a", "R", "q", "a">>, <<"S", "O", "R", "q",
          "a">>, <<"S", "a", "y", "A", "R", "q", "i">>, <<"S", "a", "y", "A", "R", "q", "a">>, <<"v", "E",
          "S", "v", "a", "m", "A", "n", "a", "v", "a">>, <<"v", "E", "S", "v", "a", "D", "y", "e", "n", "a",
          "v", "a">>, <<"v", "E", "S", "v", "a", "D", "e", "n", "a", "v", "a">>, <<"n", "a", "q", "a">>,
          <<"t", "u", "R", "q", "a", "d", "e", "v", "a">>, <<"v", "i", "S", "v", "a", "d", "e", "v", "a">>,
          <<"s", "A", "p", "i", "R", "q", "i">>>>],
      [name |-> "KRAMA_ADI", entries |-> <<
          <<"k", "r", "a", "m", "a">>, <<"p", "a", "d", "a">>, <<"S", "i", "k", "z", "A">>, <<"m", "I", "m",
          "A", "M", "s", "A">>, <<"s", "A", "m", "a", "n">>>>],
      [name |-> "SANKALA_ADI", entries |-> <<
          <<"s", "a", "N", "k", "a", "l", "a">>, <<"p", "u", "z", "k", "a", "l", "a">>, <<"u", "d", "v", "a",
          "p", "a">>, <<"u", "q", "u", "p", "a">>, <<"u", "t", "p", "u", "w", "a">>, <<"k", "u", "m", "B",
          "a">>, <<"v", "i", "D", "A", "n", "a">>, <<"s", "u", "d", "a", "k", "z", "a">>, <<"s", "u", "d",
          "a", "t", "t", "a">>, <<"s", "u", "B", "U", "t", "a">>, <<"s", "u", "n", "e", "t", "r", "a">>,
          <<"s", "u", "p", "i", "N", "g", "a", "l", "a">>, <<"s", "i", "k", "a", "t", "A">>, <<"p", "U", "t",
          "I", "k", "I">>, <<"p", "U", "l", "a", "s", "a">>, <<"k", "U", "l", "A", "s", "a">>, <<"p", "a",
          "l", "A", "S", "a">>, <<"n", "i", "v", "e", "S", "a">>, <<"g", "a", "v", "e", "z", "a">>, <<"g",
          "a", "m", "B", "I", "r", "a">>, <<"i", "t", "a", "r", "a">>, <<"S", "a", "r", "m", "a", "n">>,
          <<"a", "h", "a", "n">>, <<"l", "o", "m", "a", "n">>, <<"v", "e", "m", "a", "n">>, <<"v", "a", "r",
          "u", "R", "a">>, <<"b", "a", "h", "u", "l", "a">>, <<"s", "a", "d", "y", "o", "j", "a">>, <<"a",
          "B", "i", "z", "i", "k", "t", "a">>, <<"g", "o", "B", "f", "t">>, <<"r", "A", "j", "a", "B", "f",
          "t">>, <<"g", "f", "h", "a">>, <<"B", "f", "t", "a">>, <<"B", "a", "l", "l", "a">>, <<"m", "A", "l",
          "a">>, <<"v", "f", "t">>>>],
      [name |-> "SUVASTA_ADI", entries |-> <<
          <<"s", "u", "v", "A", "s", "t", "u">>, <<"v", "a", "r", "R", "u">>, <<"B", "a", "R", "q", "u">>,
          <<"K", "a", "R", "q", "u">>, <<"s", "e", "c", "A", "l", "i", "n">>, <<"k", "a", "r", "p", "U", "r",
          "i", "n">>, <<"S", "i", "K", "a", "R", "d", "i", "n">>, <<"g", "a", "r", "t", "a">>, <<"k", "a",
          "r", "k", "a", "S", "a">>, <<"S", "a", "w", "I", "k", "a", "r", "R", "a">>, <<"k", "f", "z", "R",
          "a">>, <<"k", "a", "r", "k", "a">>, <<"k", "a", "r", "N", "k", "a", "D", "U", " ", "m", "a", "t",
          "I">>, <<"g", "o", "h", "r", "a">>, <<"a", "h", "i", "s", "a", "k", "T", "a">>, <<"v", "f", "t">>>>],
      [name |-> "MADHU_ADI", entries |-> <<
          <<"m", "a", "D", "u">>, <<"b", "i", "s", "a">>, <<"s", "T", "A", "R", "u">>, <<"m", "u", "z", "w",
          "i">>, <<"i", "k", "z", "u">>, <<"v", "e", "R", "u">>, <<"r", "a", "m", "y", "a">>, <<"f", "k", "z",
          "a">>, <<"k", "a", "r", "k", "a", "n", "D", "u">>, <<"S", "a", "m", "I">>, <<"k", "i", "r", "I",
          "r", "a">>, <<"h", "i", "m", "a">>, <<"k", "i", "S", "a", "r", "A">>, <<"S", "a", "r", "p", "a",
          "R", "A">>, <<"m", "a", "r", "u", "t">>, <<"m", "a", "r", "u", "v", "a">>, <<"d", "A", "r", "v",
          "A", "G", "A", "w", "a">>, <<"S", "a", "r", "a">>, <<"i", "z", "w", "a", "k", "A">>, <<"t", "a",
          "k", "z", "a", "S", "i", "l", "A">>, <<"S", "a", "k", "t", "i">>, <<"A", "s", "a", "n", "d", "I">>,
          <<"A", "s", "u", "t", "i">>, <<"S", "a", "l", "A", "k", "A">>, <<"A", "m", "i", "D", "I">>, <<"K",
          "a", "q", "A">>, <<"v", "e", "w", "A">>, <<"m", "a", "D", "v", "A", "d", "i", "H">>>>],
      [name |-> "KATRI_ADI", entries |-> <<
          <<"k", "a", "t", "r", "i">>, <<"u", "m", "B", "i">>, <<"p", "u", "z", "k", "a", "r", "a">>, <<"m",
          "o", "d", "a", "n", "a">>, <<"k", "u", "m", "B", "I">>, <<"k", "u", "R", "q", "i", "n", "a">>,
          <<"n", "a", "g", "a", "r", "a">>, <<"v", "a", "Y", "j", "I">>, <<"B", "a", "k", "t", "i">>, <<"m",
          "A", "h", "i", "z", "m", "a", "t", "I">>, <<"c", "a", "r", "m", "a", "R", "v", "a", "t", "I">>,
          <<"g", "r", "A", "m", "a">>, <<"u", "K", "y", "A">>, <<"k", "u", "q", "y", "A">>, <<"k", "a", "t",
          "r", "y", "A", "d", "i", "H">>>>],
      [name |-> "NADI_ADI", entries |-> <<
          <<"n", "a", "d", "I">>, <<"m", "a", "h", "I">>, <<"v", "A", "r", "A", "R", "a", "s", "I">>, <<"S",
          "r", "A", "v", "a", "s", "t", "I">>, <<"k", "O", "S", "A", "m", "b", "I">>, <<"n", "a", "v", "a",
          "k", "O", "S", "A", "m", "b", "I">>, <<"k", "A", "S", "a", "P", "a", "r", "I">>, <<"K", "A", "d",
          "i", "r", "I">>, <<"p", "U", "r", "v", "a", "n", "a", "g", "a", "r", "I">>, <<"p", "A", "v", "A">>,
          <<"m", "A", "v", "A">>, <<"s", "A", "l", "v", "A">>, <<"d", "A", "r", "v", "A">>, <<"d", "A", "l",
          "v", "A">>, <<"v", "A", "s", "e", "n", "a", "k", "I">>, <<"v", "a", "q", "a", "v", "A">>>>],
      [name |-> "KASHI_ADI", entries |-> <<
          <<"k", "A", "S", "i">>, <<"c", "e", "d", "i">>, <<"b", "e", "d", "i">>, <<"s", "a", "M", "j", "Y",
          "A">>, <<"s", "a", "M", "v", "A", "h", "a">>, <<"a", "c", "y", "u", "t", "a">>, <<"m", "o", "h",
          "a", "m", "A", "n", "a">>, <<"S", "a", "k", "u", "l", "A", "d", "a">>, <<"h", "a", "s", "t", "i",
          "k", "a", "r", "z", "U">>, <<"k", "u", "d", "A", "m", "a", "n">>, <<"h", "i", "r", "a", "R", "y",
          "a">>, <<"k", "a", "r", "a", "R", "a">>, <<"g", "o", "D", "A", "S", "a", "n", "a">>, <<"B", "O",
          "r", "i", "k", "i">>, <<"B", "O", "l", "i", "N", "g", "i">>, <<"a", "r", "i", "n", "d", "a", "m",
          "a">>, <<"s", "a", "r", "v", "a", "m", "i", "t", "r", "a">>, <<"d", "e", "v", "a", "d", "a", "t",
          "t", "a">>, <<"s", "A", "D", "u", "m", "i", "t", "r", "a">>, <<"d", "A", "s", "a", "m", "i", "t",
          "r", "a">>, <<"d", "A", "s", "a", "g", "r", "A", "m", "a">>, <<"s", "O", "D", "A", "v", "a", "t",
          "A", "n", "a">>, <<"y", "u", "v", "a", "r", "A", "j", "a">>, <<"u", "p", "a", "r", "A", "j", "a">>,
          <<"s", "i", "n", "D", "u", "m", "i", "t", "r", "a">>, <<"d", "e", "v", "a", "r", "A", "j", "a">>,
          <<"A", "p", "a", "t", "k", "A", "l", "a">>, <<"U", "r", "D", "v", "a", "k", "A", "l", "a">>, <<"t",
          "a", "t", "k", "A", "l", "a">>>>],
      [name |-> "KACCHA_ADI", entries |-> <<
          <<"k", "a", "c", "C", "a">>, <<"s", "i", "n", "D", "u">>, <<"v", "a", "r", "R", "u">>, <<"g", "a",
          "n", "D", "A", "r", "a">>, <<"m", "a", "D", "u", "m", "a", "t">>, <<"k", "a", "m", "b", "o", "j",
          "a">>, <<"k", "a", "S", "m", "I", "r", "a">>, <<"s", "A", "l", "v", "a">>, <<"k", "u", "r", "u">>,
          <<"r", "a", "N", "k", "u">>, <<"a", "R", "u">>, <<"K", "a", "R", "q", "a">>, <<"d", "v", "I", "p",
          "a">>, <<"a", "n", "U", "p", "a">>, <<"a", "j", "a", "v", "A", "h", "a">>, <<"v", "i", "j", "A",
          "p", "a", "k", "a", "H">>, <<"k", "u", "l", "U", "n", "a">>>>],
      [name |-> "GAHA_ADI", entries |-> <<
          <<"g", "a", "h", "a">>, <<"a", "n", "t", "a", "H", "s", "T", "a">>, <<"s", "a", "m", "a">>, <<"v",
          "i", "z", "a", "m", "a">>, <<"m", "a", "D", "y", "a">>, <<"m", "a", "D", "y", "a", "m", "a">>,
          <<"u", "t", "t", "a", "m", "a">>, <<"a", "N", "g", "a">>, <<"v", "a", "N", "g", "a">>, <<"m", "a",
          "g", "a", "D", "a">>, <<"p", "U", "r", "v", "a", "p", "k", "z", "a">>, <<"a", "p", "a", "r", "a",
          "p", "a", "k", "z", "a">>, <<"a", "D", "a", "m", "a", "S", "A", "K", "a">>, <<"u", "t", "t", "a",
          "m", "a", "S", "A", "K", "a">>, <<"s", "a", "m", "A", "n", "a", "S", "A", "K", "a">>, <<"e", "k",
          "a", "g", "r", "A", "m", "a">>, <<"e", "k", "a", "v", "f", "k", "z", "a">>, <<"e", "k", "a", "p",
          "a", "l", "A", "S", "a">>, <<"e", "z", "v", "a", "g", "r", "a">>, <<"i", "z", "v", "a", "n", "I">>,
          <<"a", "v", "a", "s", "y", "a", "n", "d", "I">>, <<"k", "A", "m", "a", "p", "r", "a", "s", "T",
          "a">>, <<"K", "A", "q", "A", "y", "a", "n", "i">>, <<"k", "A", "v", "e", "r", "a", "R", "i">>,
          <<"S", "O", "N", "g", "i">>, <<"A", "s", "u", "r", "i">>, <<"A", "h", "i", "M", "s", "i">>, <<"A",
          "m", "i", "t", "r", "i">>, <<"v", "y", "A", "q", "i">>, <<"v", "E", "d", "a", "j", "i">>, <<"B",
          "O", "j", "i">>, <<"A", "Q", "y", "a", "S", "v", "i">>, <<"A", "n", "f", "S", "a", "M", "s", "i">>,
          <<"s", "O", "v", "i">>, <<"p", "A", "r", "a", "k", "i">>, <<"a", "g", "n", "i", "S", "a", "r", "m",
          "a", "n">>, <<"d", "e", "v", "a", "S", "a", "r", "m", "a", "n">>, <<"S", "r", "O", "t", "i">>,
          <<"A", "r", "a", "w", "a", "k", "i">>, <<"v", "A", "l", "m", "I", "k", "i">>, <<"k", "z", "e", "m",
          "a", "v", "f", "d", "D", "i", "n">>, <<"u", "t", "t", "a", "r", "a">>, <<"a", "n", "t", "a", "r",
          "a">>, <<"j", "a", "n", "a">>, <<"p", "a", "r", "a">>, <<"d", "e", "v", "a">>, <<"v", "e", "R", "u",
          "k", "A">>>>],
      [name |-> "SANDHIVELA_ADI", entries |-> <<
>>],
      [name |-> "DIG_ADI", entries |-> <<
          <<"d", "i", "S">>, <<"v", "a", "r", "g", "a">>, <<"p", "U", "g", "a">>, <<"g", "a", "R", "a">>,
          <<"p", "a", "k", "z", "a">>, <<"D", "A", "y", "y", "A">>, <<"m", "i", "t", "r", "a">>, <<"m", "e",
          "D", "A">>, <<"a", "n", "t", "a", "r", "a">>, <<"p", "a", "T", "i", "n">>, <<"r", "a", "h", "a",
          "s">>, <<"a", "l", "I", "k", "a">>, <<"u", "K", "A">>, <<"s", "A", "k", "z", "i", "n">>, <<"A", "d",
          "i">>, <<"a", "n", "t", "a">>, <<"m", "u", "K", "a">>, <<"j", "a", "G", "n", "a">>, <<"m", "e", "G",
          "a">>, <<"y", "U", "T", "a">>, <<"u", "d", "a", "k", "a">>, <<"n", "y", "A", "y", "a">>, <<"v", "a",
          "M", "S", "a">>, <<"a", "n", "u", "v", "a", "M", "S", "a">>, <<"v", "i", "S", "a">>, <<"k", "A",
          "l", "a">>, <<"a", "p">>, <<"A", "k", "A", "S", "a">>, <<"d", "i", "g", "A", "d", "i", "H">>>>],
      [name |-> "SHUNDIKA_ADI", entries |-> <<
          <<"S", "u", "R", "q", "i", "k", "a">>, <<"k", "f", "k", "a", "R", "a">>, <<"s", "T", "a", "R", "q",
          "i", "l", "a">>, <<"u", "d", "a", "p", "A", "n", "a">>, <<"u", "p", "a", "l", "a">>, <<"t", "I",
          "r", "T", "a">>, <<"B", "U", "m", "i">>, <<"t", "f", "R", "a">>, <<"p", "a", "r", "R", "a">>>>],
      [name |-> "SHANDIKA_ADI", entries |-> <<
          <<"S", "a", "R", "q", "i", "k", "a">>, <<"s", "a", "r", "v", "a", "s", "e", "n", "a">>, <<"s", "a",
          "r", "v", "a", "k", "e", "S", "a">>, <<"S", "a", "k", "a">>, <<"s", "a", "w", "a">>, <<"r", "a",
          "k", "a">>, <<"S", "a", "N", "K", "a">>, <<"b", "o", "D", "a">>>>],
      [name |-> "SINDHU_ADI", entries |-> <<
          <<"s", "i", "n", "D", "u">>, <<"v", "a", "r", "R", "u">>, <<"g", "a", "n", "D", "A", "r", "a">>,
          <<"m", "a", "D", "u", "m", "a", "t">>, <<"k", "a", "m", "b", "o", "j", "a">>, <<"k", "a", "S", "m",
          "I", "r", "a">>, <<"s", "A", "l", "v", "a">>, <<"k", "i", "z", "k", "i", "n", "D", "A">>, <<"g",
          "a", "d", "i", "k", "A">>, <<"u", "r", "a", "s", "a">>, <<"d", "a", "r", "a", "t">>>>],
      [name |-> "TAKSHASHILA_ADI", entries |-> <<
          <<"t", "a", "k", "z", "a", "S", "i", "l", "A">>, <<"v", "a", "t", "s", "o", "d", "D", "a", "r", "a",
          "R", "a">>, <<"k", "O", "m", "e", "d", "u", "r", "a">>, <<"k", "a", "R", "q", "a", "v", "A", "r",
          "a", "R", "a">>, <<"g", "r", "A", "m", "a", "R", "I">>, <<"s", "a", "r", "A", "l", "a", "k", "a">>,
          <<"k", "a", "M", "s", "a">>, <<"k", "i", "n", "n", "a", "r", "a">>, <<"s", "a", "M", "k", "u", "c",
          "i", "t", "a">>, <<"s", "i", "M", "h", "a", "k", "o", "z", "W", "a">>, <<"k", "a", "r", "R", "a",
          "k", "o", "z", "W", "a">>, <<"b", "a", "r", "b", "a", "r", "a">>, <<"a", "v", "a", "s", "A", "n",
          "a">>>>],
      [name |-> "RAIVATIKA_ADI", entries |-> <<
          <<"r", "E", "v", "a", "t", "i", "k", "a">>, <<"s", "v", "A", "p", "i", "S", "i">>, <<"k", "z", "E",
          "m", "a", "v", "f", "d", "D", "i">>, <<"g", "O", "r", "a", "g", "r", "I", "v", "i">>, <<"O", "d",
          "a", "m", "e", "y", "i">>, <<"O", "d", "a", "v", "A", "h", "i">>, <<"b", "E", "j", "a", "v", "A",
          "p", "i">>>>],
      [name |-> "PARPA_ADI", entries |-> <<
          <<"p", "a", "r", "p", "a">>, <<"a", "S", "v", "a">>, <<"a", "S", "v", "a", "t", "T", "a">>, <<"r",
          "a", "T", "a">>, <<"j", "A", "l", "a">>, <<"n", "y", "A", "s", "a">>, <<"v", "y", "A", "l", "a">>,
          <<"p", "A", "d", "a">>, <<"p", "a", "Y", "c", "a">>, <<"p", "a", "d", "i", "k", "a">>>>],
      [name |-> "KULALA_ADI", entries |-> <<
          <<"k", "u", "l", "A", "l", "a">>, <<"v", "a", "r", "u", "q", "a">>, <<"c", "a", "R", "q", "A", "l",
          "a">>, <<"n", "i", "z", "A", "d", "a">>, <<"k", "a", "r", "m", "A", "r", "a">>, <<"s", "e", "n",
          "A">>, <<"s", "i", "r", "a", "G", "r", "a">>, <<"s", "e", "n", "d", "r", "i", "y", "a">>, <<"d",
          "e", "v", "a", "r", "A", "j", "a">>, <<"p", "a", "r", "i", "z", "a", "t">>, <<"v", "a", "D", "U">>,
          <<"r", "u", "r", "u">>, <<"D", "r", "u", "v", "a">>, <<"r", "u", "d", "r", "a">>, <<"a", "n", "a",
          "q", "u", "H">>, <<"b", "r", "a", "h", "m", "a", "n">>, <<"k", "u", "m", "B", "a", "k", "A", "r",
          "a">>, <<"S", "v", "a", "p", "A", "k", "a">>>>],
      [name |-> "PLAKSHA_ADI", entries |-> <<
          <<"p", "l", "a", "k", "z", "a">>, <<"n", "y", "a", "g", "r", "o", "D", "a">>, <<"a", "S", "v", "a",
          "t", "T", "a">>, <<"i", "N", "g", "u", "d", "I">>, <<"S", "i", "g", "r", "u">>, <<"k", "a", "k",
          "a", "r", "n", "D", "u">>, <<"v", "u", "h", "a", "t", "I">>>>],
      [name |-> "VETANA_ADI", entries |-> <<
          <<"v", "e", "t", "a", "n", "a">>, <<"v", "A", "h", "a">>, <<"a", "r", "D", "a", "v", "A", "h",
          "a">>, <<"D", "a", "n", "u", "r", "d", "a", "R", "q", "a">>, <<"j", "A", "l", "a">>, <<"v", "e",
          "s", "a">>, <<"u", "p", "a", "v", "e", "s", "a">>, <<"p", "r", "e", "z", "a", "n", "a">>, <<"u",
          "p", "a", "s", "t", "i">>, <<"s", "u", "K", "a">>, <<"S", "a", "y", "y", "A">>, <<"S", "a", "k",
          "t", "i">>, <<"u", "p", "a", "n", "i", "z", "a", "d">>, <<"u", "p", "a", "v", "e", "z", "a">>,
          <<"s", "r", "a", "j">>, <<"p", "A", "d", "a">>, <<"u", "p", "a", "s", "T", "A", "n", "a">>>>],
      [name |-> "AKSHADYUTA_ADI", entries |-> <<
          <<"a", "k", "z", "a", "d", "y", "U", "t", "a">>, <<"j", "A", "n", "u", "p", "r", "a", "h", "f", "t",
          "a">>, <<"j", "a", "N", "G", "A", "p", "r", "a", "h", "f", "t", "a">>, <<"p", "A", "d", "a", "s",
          "v", "e", "d", "a", "n", "a">>, <<"k", "a", "R", "w", "a", "k", "a", "m", "a", "r", "d", "a", "n",
          "a">>, <<"g", "a", "t", "A", "g", "a", "t", "a">>, <<"y", "A", "t", "o", "p", "a", "y", "A", "t",
          "a">>, <<"a", "n", "u", "g", "a", "t", "a">>>>],
      [name |-> "CHATRA_ADI", entries |-> <<
          <<"C", "a", "t", "r", "a">>, <<"b", "u", "B", "u", "k", "z", "A">>, <<"S", "i", "k", "z", "A">>,
          <<"p", "u", "r", "o", "h", "a">>, <<"s", "T", "A">>, <<"c", "u", "r", "A">>, <<"u", "p", "a", "s",
          "T", "A", "n", "a">>, <<"f", "z", "i">>, <<"k", "a", "r", "m", "a", "n">>, <<"v", "i", "S", "v",
          "a", "D", "A">>, <<"t", "a", "p", "a", "s">>, <<"s", "a", "t", "y", "a">>, <<"a", "n", "f", "t",
          "a">>, <<"S", "i", "b", "i", "k", "A">>>>],
      [name |-> "PRATIJANA_ADI", entries |-> <<
          <<"p", "r", "a", "t", "i", "j", "a", "n", "a">>, <<"i", "d", "a", "M", "y", "u", "g", "a">>, <<"s",
          "a", "M", "y", "u", "g", "a">>, <<"s", "a", "m", "a", "y", "u", "g", "a">>, <<"p", "a", "r", "a",
          "y", "u", "g", "a">>, <<"p", "a", "r", "a", "k", "u", "l", "a">>, <<"p", "a", "r", "a", "s", "y",
          "a", "k", "u", "l", "a">>, <<"a", "m", "u", "z", "y", "a", "k", "u", "l", "a">>, <<"s", "a", "r",
          "v", "a", "j", "a", "n", "a">>, <<"v", "i", "S", "v", "a", "j", "a", "n", "a">>, <<"m", "a", "h",
          "A", "j", "a", "n", "a">>, <<"p", "a", "Y", "c", "a", "j", "a", "n", "a">>>>],
      [name |-> "KATHA_ADI", entries |-> <<
          <<"k", "a", "T", "A">>, <<"v", "i", "k", "a", "T", "A">>, <<"v", "i", "S", "v", "a", "k", "a", "T",
          "A">>, <<"s", "a", "M", "k", "a", "T", "A">>, <<"v", "i", "t", "a", "R", "q", "A">>, <<"k", "u",
          "z", "w", "a", "v", "i", "d">>, <<"k", "u", "z", "W", "a", "v", "i", "d">>, <<"j", "a", "n", "a",
          "v", "A", "d", "a">>, <<"j", "a", "n", "e", "v", "A", "d", "a">>, <<"j", "a", "n", "o", "v", "A",
          "d", "a">>, <<"v", "f", "t", "t", "i">>, <<"s", "a", "M", "g", "f", "h", "a">>, <<"g", "u", "R",
          "a", "g", "a", "R", "a">>, <<"A", "y", "u", "r", "v", "e", "d", "a">>>>],
      [name |-> "GUDA_ADI", entries |-> <<
          <<"g", "u", "q", "a">>, <<"k", "u", "l", "m", "A", "z", "a">>, <<"s", "a", "k", "t", "u">>, <<"a",
          "p", "U", "p", "a">>, <<"m", "A", "M", "s", "O", "d", "a", "n", "a">>, <<"i", "k", "z", "u">>,
          <<"v", "e", "R", "u">>, <<"s", "a", "N", "g", "r", "A", "m", "a">>, <<"s", "a", "M", "G", "A", "t",
          "a">>, <<"s", "a", "M", "k", "A", "m", "a">>, <<"s", "a", "M", "v", "A", "h", "a">>, <<"p", "r",
          "a", "v", "A", "s", "a">>, <<"n", "i", "v", "A", "s", "a">>, <<"u", "p", "a", "v", "A", "s", "a">>>>],
      [name |-> "GAVADI", entries |-> <<
          <<"g", "o">>, <<"h", "a", "v", "i", "s">>, <<"a", "k", "z", "a", "r", "a">>, <<"v", "i", "z", "a">>,
          <<"b", "a", "r", "h", "i", "s">>, <<"a", "z", "w", "a", "k", "A">>, <<"s", "v", "a", "d", "A">>,
          <<"y", "u", "g", "a">>, <<"m", "e", "D", "A">>, <<"s", "r", "a", "c">>, <<"n", "A", "B", "i">>,
          <<"n", "a", "B", "a">>, <<"k", "U", "p", "a">>, <<"K", "a", "d", "a">>, <<"d", "a", "r", "a">>,
          <<"a", "s", "u", "r", "a">>, <<"a", "D", "v", "a", "n">>, <<"a", "D", "v", "a", "n", "a">>, <<"k",
          "z", "a", "r", "a">>, <<"v", "e", "d", "a">>, <<"b", "I", "j", "a">>, <<"d", "I", "s", "a">>, <<"d",
          "I", "p", "t", "a">>>>],
      [name |-> "APUPA_ADI", entries |-> <<
          <<"a", "p", "U", "p", "a">>, <<"t", "a", "R", "q", "u", "l", "a">>, <<"a", "B", "y", "u", "z",
          "a">>, <<"a", "B", "y", "U", "z", "a">>, <<"a", "B", "y", "o", "z", "a">>, <<"a", "v", "o", "z",
          "a">>, <<"a", "B", "y", "e", "z", "a">>, <<"p", "f", "T", "u", "k", "a">>, <<"o", "d", "a", "n",
          "a">>, <<"s", "U", "p", "a">>, <<"p", "U", "p", "a">>, <<"k", "i", "R", "v", "a">>, <<"p", "r", "a",
          "d", "I", "p", "a">>, <<"m", "u", "s", "a", "l", "a">>, <<"k", "a", "w", "a", "k", "a">>, <<"k",
          "a", "r", "R", "a", "v", "e", "z", "w", "a", "k", "a">>, <<"i", "r", "g", "a", "l", "a">>, <<"a",
          "r", "g", "a", "l", "a">>, <<"y", "U", "p", "a">>, <<"s", "T", "U", "R", "A">>, <<"d", "I", "p",
          "a">>, <<"a", "S", "v", "a">>, <<"p", "a", "t", "r", "a">>>>],
      [name |-> "NISHKA_ADI", entries |-> <<
          <<"n", "i", "z", "k", "a">>, <<"p", "a", "R", "a">>, <<"p", "A", "d", "a">>, <<"m", "A", "z", "a">>,
          <<"v", "A", "h", "a">>, <<"d", "r", "o", "R", "a">>, <<"z", "a", "z", "w", "i">>>>],
      [name |-> "CHEDA_ADI", entries |-> <<
          <<"C", "e", "d", "a">>, <<"B", "e", "d", "a">>, <<"d", "r", "o", "h", "a">>, <<"d", "o", "h", "a">>,
          <<"n", "a", "r", "t", "i">>, <<"n", "a", "r", "t", "a">>, <<"k", "a", "r", "z", "a">>, <<"t", "I",
          "r", "T", "a">>, <<"s", "a", "m", "p", "r", "a", "y", "o", "g", "a">>, <<"v", "i", "p", "r", "a",
          "y", "o", "g", "a">>, <<"p", "r", "a", "y", "o", "g", "a">>, <<"v", "i", "p", "r", "a", "k", "a",
          "r", "z", "a">>, <<"p", "r", "e", "z", "a", "R", "a">>, <<"s", "a", "m", "p", "r", "a", "S", "n",
          "a">>, <<"v", "i", "p", "r", "a", "S", "n", "a">>, <<"v", "i", "k", "a", "r", "z", "a">>, <<"v",
          "i", "r", "A", "g", "a">>, <<"v", "i", "r", "a", "N", "g", "a">>>>],
      [name |-> "DANDA_ADI", entries |-> <<
          <<"d", "a", "R", "q", "a">>, <<"m", "u", "s", "a", "l", "a">>, <<"m", "a", "D", "u", "p", "a", "r",
          "k", "a">>, <<"k", "a", "S", "A">>, <<"a", "r", "G", "a">>, <<"m", "e", "G", "a">>, <<"m", "e", "D",
          "A">>, <<"s", "u", "v", "a", "r", "R", "a">>, <<"u", "d", "a", "k", "a">>, <<"v", "a", "D", "a">>,
          <<"y", "u", "g", "a">>, <<"g", "u", "h", "A">>, <<"B", "A", "g", "a">>, <<"i", "B", "a">>, <<"B",
          "a", "N", "g", "a">>>>],
      [name |-> "PRTHU_ADI", entries |-> <<
          <<"p", "f", "T", "u">>, <<"m", "f", "d", "u">>, <<"m", "a", "h", "a", "t">>, <<"p", "a", "w", "u">>,
          <<"t", "a", "n", "u">>, <<"l", "a", "G", "u">>, <<"b", "a", "h", "u">>, <<"s", "A", "D", "u">>,
          <<"v", "e", "R", "u">>, <<"A", "S", "u">>, <<"b", "a", "h", "u", "l", "a">>, <<"g", "u", "r", "u">>,
          <<"d", "a", "R", "q", "a">>, <<"u", "r", "u">>, <<"K", "a", "R", "q", "a">>, <<"c", "a", "R", "q",
          "a">>, <<"b", "A", "l", "a">>, <<"a", "k", "i", "Y", "c", "a", "n", "a">>, <<"h", "o", "q", "a">>,
          <<"p", "A", "k", "a">>, <<"v", "a", "t", "s", "a">>, <<"m", "a", "n", "d", "a">>, <<"s", "v", "A",
          "d", "u">>, <<"h", "r", "a", "s", "v", "a">>, <<"d", "I", "r", "G", "a">>, <<"p", "r", "i", "y",
          "a">>, <<"v", "f", "z", "a">>, <<"f", "j", "u">>, <<"k", "z", "i", "p", "r", "a">>, <<"k", "z", "u",
          "p", "r", "a">>, <<"k", "z", "u", "d", "r", "a">>>>],
      [name |-> "TARAKA_ADI", entries |-> <<
          <<"t", "A", "r", "a", "k", "A">>, <<"p", "u", "z", "p", "a">>, <<"k", "a", "r", "R", "a", "k",
          "a">>, <<"m", "a", "Y", "j", "a", "r", "I">>, <<"f", "j", "I", "z", "a">>, <<"k", "z", "a", "R",
          "a">>, <<"s", "U", "t", "r", "a">>, <<"m", "U", "t", "r", "a">>, <<"n", "i", "z", "k", "r", "a",
          "m", "a", "R", "a">>, <<"p", "u", "r", "I", "z", "a">>, <<"u", "c", "c", "A", "r", "a">>, <<"p",
          "r", "a", "c", "A", "r", "a">>, <<"v", "i", "c", "A", "r", "a">>, <<"k", "u", "q", "m", "a", "l",
          "a">>, <<"k", "a", "R", "w", "a", "k", "a">>, <<"m", "u", "s", "a", "l", "a">>, <<"m", "u", "k",
          "u", "l", "a">>, <<"k", "u", "s", "u", "m", "a">>, <<"k", "u", "t", "U", "h", "a", "l", "a">>,
          <<"s", "t", "a", "b", "a", "k", "a">>, <<"s", "t", "a", "v", "a", "k", "a">>, <<"k", "i", "s", "a",
          "l", "a", "y", "a">>, <<"p", "a", "l", "l", "a", "v", "a">>, <<"K", "a", "R", "q", "a">>, <<"v",
          "e", "g", "a">>, <<"n", "i", "d", "r", "A">>, <<"m", "u", "d", "r", "A">>, <<"b", "u", "B", "u",
          "k", "z", "A">>, <<"D", "e", "n", "u", "z", "y", "A">>, <<"p", "i", "p", "A", "s", "A">>, <<"S",
          "r", "a", "d", "D", "A">>, <<"a", "B", "r", "a">>, <<"p", "u", "l", "a", "k", "a">>, <<"a", "N",
          "g", "A", "r", "a", "k", "a">>, <<"v", "a", "r", "R", "a", "k", "a">>, <<"d", "r", "o", "h", "a">>,
          <<"d", "o", "h", "a">>, <<"s", "u", "K", "a">>, <<"d", "u", "H", "K", "a">>, <<"u", "t", "k", "a",
          "R", "W", "A">>, <<"B", "a", "r", "a">>, <<"v", "y", "A", "D", "i">>, <<"v", "a", "r", "m", "a",
          "n">>, <<"v", "r", "a", "R", "a">>, <<"g", "O", "r", "a", "v", "a">>, <<"S", "A", "s", "t", "r",
          "a">>, <<"t", "a", "r", "a", "N", "g", "a">>, <<"t", "i", "l", "a", "k", "a">>, <<"c", "a", "n",
          "d", "r", "a", "k", "a">>, <<"a", "n", "D", "a", "k", "A", "r", "a">>, <<"g", "a", "r", "v", "a">>,
          <<"k", "u", "m", "u", "r", "a">>, <<"m", "u", "k", "u", "r", "a">>, <<"h", "a", "r", "z", "a">>,
          <<"u", "t", "k", "a", "r", "z", "a">>, <<"r", "a", "R", "a">>, <<"k", "u", "v", "a", "l", "a", "y",
          "a">>, <<"g", "a", "r", "G", "a">>, <<"k", "z", "u", "D">>, <<"s", "I", "m", "a", "n", "t", "a">>,
          <<"j", "v", "a", "r", "a">>, <<"g", "a", "r", "a">>, <<"r", "o", "g", "a">>, <<"r", "o", "m", "A",
          "Y", "c", "a">>, <<"p", "a", "R", "q", "A">>, <<"k", "u", "j", "j", "a", "l", "a">>, <<"t", "f",
          "z">>, <<"k", "o", "r", "a", "k", "a">>, <<"k", "a", "l", "l", "o", "l", "a">>, <<"s", "T", "a",
          "p", "u", "w", "a">>, <<"P", "a", "l", "a">>, <<"k", "a", "Y", "c", "u", "k", "a">>, <<"S", "f",
          "N", "g", "A", "r", "a">>, <<"a", "N", "k", "u", "r", "a">>, <<"S", "E", "v", "a", "l", "a">>,
          <<"b", "a", "k", "u", "l", "a">>, <<"S", "v", "a", "m", "r", "a">>, <<"A", "r", "A", "l", "a">>,
          <<"k", "a", "l", "a", "N", "k", "a">>, <<"k", "a", "r", "d", "a", "m", "a">>, <<"k", "a", "n", "d",
          "a", "l", "a">>, <<"m", "U", "r", "c", "C", "A">>, <<"a", "N", "g", "A", "r", "a">>, <<"h", "a",
          "s", "t", "a", "k", "a">>, <<"p", "r", "i", "b", "i", "m", "b", "a">>, <<"v", "i", "G", "n", "a",
          "t", "a", "n", "t", "r", "a">>, <<"p", "r", "a", "t", "y", "a", "y", "a">>, <<"d", "I", "k", "z",
          "A">>, <<"g", "a", "r", "j", "a">>>>],
      [name |-> "VIMUKTA_ADI", entries |-> <<
          <<"v", "i", "m", "u", "k", "t", "a">>, <<"d", "e", "v", "A", "s", "u", "r", "a">>, <<"r", "a", "k",
          "z", "o", "s", "u", "r", "a">>, <<"u", "p", "a", "s", "a", "d">>, <<"s", "u", "v", "a", "r", "R",
          "a">>, <<"p", "a", "r", "i", "s", "A", "r", "a", "k", "a">>, <<"s", "a", "d", "a", "s", "a", "t">>,
          <<"v", "a", "s", "u">>, <<"m", "a", "r", "u", "t">>, <<"p", "a", "t", "n", "I", "v", "a", "t">>,
          <<"v", "a", "s", "u", "m", "a", "t">>, <<"m", "a", "h", "I", "y", "a", "s">>, <<"s", "a", "t", "v",
          "a", "t">>, <<"b", "a", "r", "h", "a", "v", "a", "t">>, <<"d", "a", "S", "A", "r", "R", "a">>,
          <<"d", "a", "S", "A", "r", "h", "a">>, <<"v", "a", "y", "a", "s">>, <<"h", "a", "v", "i", "r", "D",
          "A", "n", "a">>, <<"p", "a", "t", "a", "t", "r", "i", "n">>, <<"m", "a", "h", "i", "t", "r", "I">>,
          <<"a", "s", "y", "a", "h", "a", "t", "y", "a">>, <<"s", "o", "m", "A", "p", "U", "z", "a", "n">>,
          <<"i", "q", "A">>, <<"a", "g", "n", "A", "v", "i", "z", "R", "U">>, <<"u", "r", "v", "a", "S",
          "I">>, <<"v", "f", "t", "r", "a", "h", "a", "n">>>>],
      [name |-> "GOSHADA_ADI", entries |-> <<
          <<"g", "o", "z", "a", "d", "a">>, <<"g", "o", "z", "a", "d">>, <<"i", "z", "e", "t", "v", "A">>,
          <<"m", "A", "t", "a", "r", "i", "S", "v", "a", "n">>, <<"d", "e", "v", "a", "s", "y", "a", "t", "v",
          "A">>, <<"d", "e", "v", "I", "r", "A", "p", "a", "H">>, <<"k", "f", "z", "R", "a">>, <<"d", "e",
          "v", "I", "M", "D", "i", "y", "A">>, <<"d", "e", "v", "I", "M", "D", "i", "y", "a">>, <<"r", "a",
          "k", "z", "o", "h", "a", "R", "a">>, <<"y", "u", "Y", "j", "A", "n", "a">>, <<"a", "Y", "j", "a",
          "n", "a">>, <<"p", "r", "a", "s", "U", "t", "a">>, <<"p", "r", "a", "B", "U", "t", "a">>, <<"p",
          "r", "a", "t", "U", "r", "t", "a">>, <<"k", "f", "S", "A", "n", "u">>, <<"k", "f", "S", "A", "k",
          "u">>>>],
      [name |-> "AKARSHA_ADI", entries |-> <<
          <<"A", "k", "a", "r", "z", "a">>, <<"A", "k", "a", "z", "a">>, <<"t", "s", "a", "r", "u">>, <<"p",
          "i", "S", "A", "c", "a">>, <<"p", "i", "c", "a", "R", "q", "a">>, <<"a", "S", "a", "n", "i">>,
          <<"a", "S", "m", "a", "n">>, <<"n", "i", "c", "a", "y", "a">>, <<"c", "a", "y", "a">>, <<"v", "i",
          "j", "a", "y", "a">>, <<"j", "a", "y", "a">>, <<"A", "c", "a", "y", "a">>, <<"n", "a", "y", "a">>,
          <<"p", "A", "d", "a">>, <<"d", "I", "p", "a", "h", "r", "a", "d", "a">>, <<"h", "r", "A", "d",
          "a">>, <<"h", "l", "A", "d", "a">>, <<"g", "a", "d", "g", "a", "d", "a">>, <<"S", "a", "k", "u",
          "n", "i">>>>],
      [name |-> "RASA_ADI", entries |-> <<
          <<"r", "a", "s", "a">>, <<"r", "U", "p", "a">>, <<"g", "a", "n", "D", "a">>, <<"s", "p", "a", "r",
          "S", "a">>, <<"S", "a", "b", "d", "a">>, <<"s", "n", "e", "h", "a">>, <<"g", "u", "R", "A", "t">>,
          <<"e", "k", "A", "c", "a", "H">>>>],
      [name |-> "SIDHMA_ADI", entries |-> <<
          <<"s", "i", "D", "m", "a">>, <<"g", "a", "q", "u">>, <<"m", "a", "R", "i">>, <<"n", "A", "B", "i">>,
          <<"j", "I", "v", "a">>, <<"n", "i", "z", "p", "A", "v", "a">>, <<"p", "A", "M", "s", "u">>, <<"s",
          "a", "k", "t", "u">>, <<"h", "a", "n", "u">>, <<"m", "A", "M", "s", "a">>, <<"p", "a", "r", "a",
          "S", "u">>>>],
      [name |-> "LOMA_ADI", entries |-> <<
          <<"l", "o", "m", "a", "n">>, <<"r", "o", "m", "a", "n">>, <<"v", "a", "l", "g", "u">>, <<"b", "a",
          "B", "r", "O">>, <<"h", "a", "r", "i">>, <<"k", "a", "p", "i">>, <<"S", "u", "n", "i">>, <<"t", "a",
          "r", "u">>>>],
      [name |-> "PAMA_ADI", entries |-> <<
          <<"p", "A", "m", "a", "n">>, <<"v", "A", "m", "a", "n">>, <<"h", "e", "m", "a", "n">>, <<"S", "l",
          "e", "z", "m", "a", "n">>, <<"k", "a", "d", "r", "u">>, <<"b", "a", "l", "i">>, <<"S", "r", "e",
          "z", "W", "a">>, <<"p", "a", "l", "a", "l", "a">>, <<"s", "A", "m", "a", "n">>>>],
      [name |-> "PICCHA_ADI", entries |-> <<
          <<"p", "i", "c", "C", "a">>, <<"u", "r", "a", "s">>, <<"G", "r", "u", "v", "a", "k", "A">>, <<"k",
          "z", "u", "v", "a", "k", "A">>, <<"v", "a", "r", "R", "a">>, <<"u", "d", "a", "k", "a">>, <<"p",
          "a", "N", "k", "a">>, <<"p", "r", "a", "j", "Y", "A">>>>],
      [name |-> "TUNDA_ADI", entries |-> <<
          <<"t", "u", "n", "d", "a">>, <<"u", "d", "a", "r", "a">>, <<"p", "i", "c", "a", "R", "q", "a">>,
          <<"y", "a", "v", "a">>, <<"v", "r", "I", "h", "i">>>>],
      [name |-> "SHAKHA_ADI", entries |-> <<
          <<"S", "A", "K", "A">>, <<"m", "u", "K", "a">>, <<"j", "a", "G", "a", "n", "a">>, <<"S", "f", "N",
          "g", "a">>, <<"m", "e", "G", "a">>, <<"c", "a", "r", "a", "R", "a">>, <<"s", "k", "a", "n", "D",
          "a">>, <<"S", "i", "r", "a", "s">>, <<"u", "r", "a", "s">>, <<"a", "g", "r", "a">>, <<"S", "a", "r",
          "a", "n", "a">>>>],
      [name |-> "SHARKARA_ADI", entries |-> <<
          <<"S", "a", "r", "k", "a", "r", "A">>, <<"k", "a", "p", "A", "l", "i", "k", "A">>, <<"p", "i", "z",
          "w", "i", "k", "a">>, <<"p", "u", "R", "q", "a", "r", "I", "k", "a">>, <<"S", "a", "t", "a", "p",
          "a", "t", "r", "a">>, <<"g", "o", "l", "o", "m", "a", "n">>, <<"g", "o", "p", "u", "c", "C", "a">>,
          <<"n", "a", "r", "A", "c", "I", " ">>, <<"n", "a", "k", "u", "l", "A">>, <<"s", "i", "k", "a", "t",
          "A">>>>],
      [name |-> "ANGULI_ADI", entries |-> <<
          <<"a", "N", "g", "u", "l", "i">>, <<"B", "a", "r", "u", "j", "a">>, <<"b", "a", "B", "r", "u">>,
          <<"v", "a", "l", "g", "u">>, <<"m", "a", "R", "q", "a", "r", "a">>, <<"m", "a", "R", "q", "a", "l",
          "a">>, <<"S", "a", "z", "k", "u", "l", "a">>, <<"k", "a", "p", "i">>, <<"u", "d", "a", "S", "v",
          "i", "t">>, <<"g", "o", "R", "I">>, <<"u", "r", "a", "s">>, <<"S", "i", "K", "a", "r", "a">>, <<"k",
          "u", "l", "i", "S", "a">>>>],
      [name |-> "DAMANI_ADI", entries |-> <<
          <<"d", "A", "m", "a", "n", "I">>, <<"O", "l", "a", "p", "i">>, <<"A", "k", "i", "d", "a", "n", "t",
          "I">>, <<"k", "A", "k", "a", "r", "a", "n", "t", "i">>, <<"k", "A", "k", "a", "d", "a", "n", "t",
          "i">>, <<"S", "a", "t", "r", "u", "n", "t", "a", "p", "i">>, <<"s", "A", "r", "v", "a", "s", "e",
          "n", "i">>, <<"b", "i", "n", "d", "u">>, <<"m", "O", "Y", "j", "A", "y", "a", "n", "a">>, <<"u",
          "l", "a", "B", "a">>, <<"s", "A", "v", "i", "t", "r", "I", "p", "u", "t", "r", "a">>>>],
      [name |-> "PARSHU_ADI", entries |-> <<
          <<"p", "a", "r", "S", "u">>, <<"a", "s", "u", "r", "a">>, <<"r", "a", "k", "z", "a", "s">>, <<"b",
          "A", "h", "l", "I", "k", "a">>, <<"v", "a", "y", "a", "s">>, <<"m", "a", "r", "u", "t">>, <<"d",
          "a", "S", "A", "r", "h", "a">>, <<"p", "i", "S", "A", "c", "a">>, <<"v", "i", "S", "A", "l", "a">>,
          <<"a", "S", "a", "n", "i">>, <<"k", "A", "r", "z", "A", "p", "a", "R", "a">>, <<"s", "a", "t", "v",
          "a", "t">>, <<"v", "a", "s", "u">>, <<"p", "a", "r", "S", "v", "A", "d", "i", "H">>>>],
      [name |-> "YAUDHEYA_ADI", entries |-> <<
          <<"y", "O", "D", "e", "y", "a">>, <<"k", "O", "S", "e", "y", "a">>, <<"k", "r", "O", "S", "e", "y",
          "a">>, <<"S", "O", "k", "r", "e", "y", "a">>, <<"S", "O", "B", "r", "e", "y", "a">>, <<"D", "A",
          "r", "t", "e", "y", "a">>, <<"v", "A", "r", "t", "e", "y", "a">>, <<"j", "A", "b", "A", "l", "e",
          "y", "a">>, <<"t", "r", "i", "g", "a", "r", "t", "a">>, <<"B", "a", "r", "a", "t", "a">>, <<"u",
          "S", "I", "n", "a", "r", "a">>>>],
      [name |-> "STHULA_ADI", entries |-> <<
          <<"s", "T", "U", "l", "a">>, <<"a", "R", "u">>, <<"m", "A", "z", "a">>, <<"i", "z", "u">>, <<"k",
          "f", "z", "R", "a">>, <<"y", "a", "v", "a">>, <<"i", "k", "z", "u">>, <<"t", "i", "l", "a">>, <<"p",
          "A", "d", "y", "a">>, <<"k", "A", "l", "a">>, <<"a", "v", "a", "d", "A", "t", "a">>, <<"g", "o",
          "m", "U", "t", "r", "a">>, <<"s", "u", "r", "A">>, <<"j", "I", "r", "R", "a">>, <<"p", "a", "t",
          "r", "a">>, <<"m", "U", "l", "a">>, <<"k", "u", "m", "A", "r", "I", "p", "u", "t", "r", "a">>,
          <<"k", "u", "m", "A", "r", "a">>, <<"S", "v", "a", "S", "u", "r", "a">>, <<"m", "a", "R", "i">>>>],
      [name |-> "URAH_PRABHRTI", entries |-> <<
          <<"u", "r", "a", "s">>, <<"s", "a", "r", "p", "i", "s">>, <<"u", "p", "A", "d", "a", "h">>, <<"p",
          "u", "m", "s">>, <<"a", "n", "a", "q", "u", "h">>, <<"p", "a", "y", "a", "s">>, <<"n", "O">>, <<"l",
          "a", "k", "z", "m", "I">>, <<"d", "a", "D", "i">>, <<"m", "a", "D", "u">>, <<"S", "A", "l", "I">>,
          <<"S", "A", "l", "i">>>>],
      [name |-> "YAVA_ADI", entries |-> <<
          <<"y", "A", "v", "a">>, <<"m", "a", "R", "i">>, <<"a", "s", "T", "i">>, <<"c", "a", "R", "q", "a">>,
          <<"p", "I", "t", "a">>, <<"s", "t", "a", "m", "B", "a">>, <<"f", "t", "u">>, <<"p", "a", "S", "u">>,
          <<"a", "R", "u">>, <<"p", "u", "t", "r", "a">>, <<"s", "n", "A", "t", "a">>, <<"S", "U", "n", "y",
          "a">>, <<"d", "A", "n", "a">>, <<"t", "a", "n", "u">>, <<"j", "Y", "A", "t", "a">>>>],
      [name |-> "VINAYA_ADI", entries |-> <<
          <<"v", "i", "n", "a", "y", "a">>, <<"s", "a", "m", "a", "y", "a">>, <<"u", "p", "A", "y", "a">>,
          <<"s", "a", "N", "g", "a", "t", "i">>, <<"k", "a", "T", "a", "Y", "c", "i", "t">>, <<"a", "k", "a",
          "s", "m", "A", "t">>, <<"s", "a", "m", "a", "y", "A", "c", "A", "r", "a">>, <<"u", "p", "a", "c",
          "A", "r", "a">>, <<"s", "a", "m", "A", "c", "A", "r", "a">>, <<"v", "y", "a", "v", "a", "h", "A",
          "r", "a">>, <<"s", "a", "m", "p", "r", "a", "d", "A", "n", "a">>, <<"s", "a", "m", "u", "t", "k",
          "a", "r", "z", "a">>, <<"s", "a", "m", "U", "h", "a">>, <<"v", "i", "S", "e", "z", "a">>, <<"a",
          "t", "y", "a", "y", "a">>>>],
      [name |-> "VRSHA_ADI", entries |-> <<
          <<"v", "f", "z", "a">>, <<"j", "a", "n", "a">>, <<"j", "v", "a", "r", "a">>, <<"g", "r", "a", "h",
          "a">>, <<"h", "a", "y", "a">>, <<"m", "a", "y", "a">>, <<"g", "a", "y", "a">>, <<"t", "A", "y",
          "a">>, <<"t", "a", "y", "a">>, <<"c", "a", "y", "a">>, <<"a", "m", "a">>, <<"v", "e", "d", "a">>,
          <<"s", "U", "d", "a">>, <<"a", "M", "S", "a">>, <<"g", "u", "h", "A">>, <<"m", "a", "n", "t", "r",
          "a">>, <<"S", "A", "n", "t", "i">>, <<"k", "A", "m", "a">>, <<"y", "A", "m", "a">>, <<"A", "r",
          "A">>, <<"D", "A", "r", "A">>, <<"k", "A", "r", "A">>, <<"v", "a", "h", "a">>, <<"k", "a", "l", "p",
          "a">>, <<"p", "A", "d", "a">>>>]
    >>

\* The words of an entry: its pieces between blanks.
lexemes(entry) == filter_non_empty(split(entry, " "))

\* list.contains(&word): the test by exact equality.
gana_contains(entries, word) == \E j \in 1..Len(entries) : entries[j] = word

InitGana ==
    /\ kp = IdleKrtPrakriya
    /\ ctx = <<>>
    /\ last = NoCall(kp)
    /\ nops = 0
    /\ panicked = FALSE
    /\ hs = NoHarnessRun
    /\ \E g \in 1..Len(GANAPATHA) : \E e \in 1..Len(GANAPATHA[g].entries) :
          \E w \in 1..Len(lexemes(GANAPATHA[g].entries[e])) :
             ucall = [done |-> FALSE, gana |-> g, entry |-> GANAPATHA[g].entries[e],
                      word |-> lexemes(GANAPATHA[g].entries[e])[w]]

\* The membership test of the word in its list.
GanaLookup ==
    /\ ~ucall.done
    /\ ucall' = [ucall EXCEPT !.done = TRUE] @@
                [found |-> gana_contains(GANAPATHA[ucall.gana].entries, ucall.word)]
    /\ UNCHANGED <<kp, ctx, last, nops, panicked, hs>>

NextGana == GanaLookup

SpecGana == InitGana /\ [][NextGana]_vars

-----------------------------------------------------------------------------
(* Properties of the KrtPrakriya wrapper (specification Spec).             *)

OPTIONAL_ADDS == {"optional_try_add_with", "optional_try_add"}

\* C2: each time optional_try_add_with meets an optional rule (the requested
\* krt is the one the rule adds and no krt has been added yet), it records
\* exactly one decision for that rule in the rule choices: accept when the
\* affix is added, decline when it is not.
C2_OneDecisionRecorded ==
    (last.op \in OPTIONAL_ADDS /\ last.krt = last.pre.krt /\ ~last.pre.has_krt) =>
        LET rc == kp.p.rule_choices
            rc0 == last.pre.p.rule_choices
        IN  /\ Len(rc) = Len(rc0) + 1
            /\ SubSeq(rc, 1, Len(rc0)) = rc0
            /\ rc[Len(rc)] = [rule |-> last.rule,
                              decision |-> IF kp.has_krt THEN "Accept" ELSE "Decline"]

\* The calls that add a krt unless one has been added.
ADDS == {"try_add", "try_add_with", "try_replace_lakara"} \cup OPTIONAL_ADDS

C5_NoPanicReachesCaller == ~panicked

\* Whether a term still shows the markers of its citation form: they are in
\* its text, or their tags are missing.
has_it_residue(t) ==
    it_tags(t.u) # {} /\ (t.text = t.u \/ ~(it_tags(t.u) \subseteq t.tags))

\* C6, for the affixes that try_add_with pushes: when the call returns, the
\* it-samjna processor has run on the affix's term, which shows no marker
\* residue.
C6_NoMarkerResidueAfterPush ==
    (last.op \in ADDS \ {"try_replace_lakara"} /\ last.how = "true") =>
        \A j \in 1..Len(kp.p.terms) :
            kp.p.terms[j].u = last.krt.s => ~has_it_residue(kp.p.terms[j])

\* Whether the latest call has appended one step to the log: it carries the
\* call's rule and a snapshot of the terms taken after the affix was pushed
\* and the closure applied.
LoggedOneStep ==
    LET s == kp.p.steps
        s0 == last.pre.p.steps
        n == Len(last.pre.p.terms)
        f == last.func
    IN  /\ Len(s) = Len(s0) + 1
        /\ SubSeq(s, 1, Len(s0)) = s0
        /\ s[Len(s)].rule = last.rule
        /\ Len(s[Len(s)].result) = n + 1
        /\ s[Len(s)].result =
              p_snapshot(apply_func(p_push(last.pre.p, to_term(last.krt)), f))
        /\ f.kind = "set_antya_at" =>
              LET text == s[Len(s)].result[f.i + 1]
              IN  text[Len(text)] = f.text[1]

\* C7, as stated: every successful insertion by try_add_with is logged as a
\* step that carries the rule, taken after the push and the closure; a call
\* that adds nothing logs no step.
C7_EveryInsertionLogged ==
    (last.op \in {"try_add_with", "try_add"} /\ last.how # "panic") =>
        IF last.how = "true"
        THEN LoggedOneStep
        ELSE kp.p.steps = last.pre.p.steps

\* C7, amended: when the step log is enabled, every successful insertion by
\* try_add_with is logged as a step that carries the rule, taken after the
\* push and the closure; a call that adds nothing, or any call while the log
\* is suppressed, logs no step.
C7_InsertionLoggedWhenLogging ==
    (last.op \in {"try_add_with", "try_add"} /\ last.how # "panic") =>
        IF last.how = "true" /\ last.pre.p.config.log_steps
        THEN LoggedOneStep
        ELSE kp.p.steps = last.pre.p.steps

\* A try_add_with that added the affix after a dhatu, with a closure that
\* edits the dhatu, while logging.
C7_LoggedInsertion ==
    /\ last.op = "try_add_with"
    /\ last.how = "true"
    /\ last.pre.p.config.log_steps
    /\ has_dhatu(last.pre.p)
    /\ last.func.kind = "set_antya_at"

\* C11: artha contexts nest as a stack.  When a with_context call returns,
\* rule_artha and had_match are what they were when that call was entered:
\* after the pop that follows a closure (at any depth, whatever the closure
\* did), and equally when the call returned without running its closure
\* (on an artha mismatch, or because a krt had been added already).  The
\* frames of the enclosing calls are not touched by the pop.
C11_ContextRestoredOnReturn ==
    /\ last.op = "with_context_exit" =>
          /\ Len(last.pre_ctx) > 0
          /\ kp.rule_artha = last.pre_ctx[Len(last.pre_ctx)].old_artha
          /\ kp.had_match = last.pre_ctx[Len(last.pre_ctx)].old_match
          /\ ctx = SubSeq(last.pre_ctx, 1, Len(last.pre_ctx) - 1)
    /\ (last.op = "with_context" /\ last.how \in {"skipped", "not_run"}) =>
          /\ kp.rule_artha = last.pre.rule_artha
          /\ kp.had_match = last.pre.had_match
          /\ ctx = last.pre_ctx
    /\ (last.op = "with_context" /\ last.how = "entered") =>
          /\ ctx[Len(ctx)] = [old_artha |-> last.pre.rule_artha,
                              old_match |-> last.pre.had_match]
          /\ SubSeq(ctx, 1, Len(ctx) - 1) = last.pre_ctx

\* An inner with_context returns, at depth two, after its closure added an
\* affix: had_match was set inside and is reset to the outer value.
C11_InnerContextReturnsAfterAdd ==
    /\ last.op = "with_context_exit"
    /\ Len(last.pre_ctx) = 2
    /\ last.pre.has_krt
    /\ last.pre.had_match
    /\ ~kp.had_match

\* C20: the index i_dhatu, computed once by new, denotes the first dhatu
\* term of the prakriya whenever it is used later (by dhatu(), upapada(),
\* has_upapada() or a rule closure), after any sequence of operations of the
\* wrapper: affix pushes, lakara replacement and nipatana included.  The
\* position before it, where the upapada is read, is the one before the
\* first dhatu.
C20_IDhatuDenotesFirstDhatu ==
    has_dhatu(kp.p) =>
        /\ p_in_range(kp.p, kp.i_dhatu)
        /\ is_dhatu(p_get(kp.p, kp.i_dhatu))
        /\ kp.i_dhatu = find_first_dhatu(kp.p)
        /\ \A j \in 0..(kp.i_dhatu - 1) : ~is_dhatu(p_get(kp.p, j))

\* Three operations, nipatana the latest, on a prakriya whose dhatu follows
\* an upasarga, with a krt pushed after the dhatu.
C20_DhatuAfterUpasargaAndNipatana ==
    /\ nops = MaxOps
    /\ last.op \in {"do_nipatana", "optional_do_nipatana"}
    /\ last.how = "true"
    /\ kp.i_dhatu = 1
    /\ Len(kp.p.terms) > 2
    /\ is_dhatu(p_get(kp.p, 1))

-----------------------------------------------------------------------------
(* Properties of the regression harness (specification SpecHarness).       *)

\* The rows that a test function was given and has returned from normally.
Compared == {i \in hs.finished : hs.rows[i].shape = "ok"}

\* The expected padas of a row, and the texts derived for it, as sets.
ExpectedSet(row) == {x \in {split(row.padas, 124)[j] : j \in 1..Len(split(row.padas, 124))} : x # <<>>}

DerivedSet(row) == {row.derived[j] : j \in 1..Len(row.derived)}

\* C12: for each data type a row is reported as [ FAIL ] if and only if the
\* set of its derived texts differs from the set of its expected padas,
\* in whatever order and however many times the padas are written.
C12_FailIffSetsDiffer ==
    \A i \in Compared :
        <<i, "FAIL">> \in hs.reports
            <=> DerivedSet(hs.rows[i]) # ExpectedSet(hs.rows[i])

\* C13: for each data type a row whose padas field is empty and whose
\* derivation yields no prakriya is not reported as a failure.
C13_EmptyResultIsNoFailure ==
    \A i \in Compared :
        (hs.rows[i].padas = <<>> /\ hs.rows[i].derived = <<>>)
            => <<i, "FAIL">> \notin hs.reports

\* C14: a run on a readable file whose hash passes ends with exit code 0,
\* whatever number of rows it reported as [ FAIL ].
C14_ExitZeroWhateverFails ==
    (hs.pc = "exit" /\ hs.args.parsable /\ hs.args.readable /\ hs.args.hash_ok)
        => hs.exit = 0

\* C15: a run whose arguments are in error (a usage error, a --test-cases
\* file that cannot be read, a --data-type that is none of tinanta, krdanta,
\* dhatu) ends with a code other than 0.
C15_NonZeroOnArgumentError ==
    (hs.pc = "exit" /\ (~hs.args.parsable \/ ~hs.args.readable
                        \/ hs.args.data_type \notin DATA_TYPES))
        => hs.exit # 0

\* C16: the checksum check comes first.  No row is given to a worker, and
\* the file is not taken as read, before the hash of the file has been
\* checked; when the hash does not match --hash no row is evaluated and no
\* derivation is made, and the run ends with a code other than 0.
C16_HashCheckedFirst ==
    /\ (hs.pc = "rows" \/ hs.pending \cup hs.running \cup hs.finished # {})
          => hs.checked /\ hs.args.hash_ok
    /\ ~hs.args.hash_ok =>
          /\ hs.pending \cup hs.running \cup hs.finished = {}
          /\ hs.derives = {}
          /\ hs.pc = "exit" /\ hs.args.parsable => hs.exit # 0

\* A run on a file of well-formed rows whose hash does not match has ended
\* after the check, with no derivation.
C16_MismatchEndsRun ==
    /\ hs.pc = "exit"
    /\ hs.checked
    /\ hs.args.readable /\ ~hs.args.hash_ok
    /\ hs.args.data_type \in DATA_TYPES
    /\ Len(hs.rows) = MaxRows
    /\ \A i \in 1..Len(hs.rows) : hs.rows[i].shape = "ok"
    /\ hs.derives = {}

\* C17: a malformed row is reported as an error for that row, with no
\* derive_* call for it and without a panic, and every other row of the
\* file is evaluated.
C17_MalformedRowIsRowError ==
    (hs.pc = "exit" /\ hs.exit # 2 /\ hs.args.readable /\ hs.args.hash_ok
     /\ hs.args.data_type \in DATA_TYPES)
        => /\ ~hs.panic
           /\ hs.finished = 1..Len(hs.rows)
           /\ \A i \in 1..Len(hs.rows) :
                 hs.rows[i].shape # "ok"
                     => <<i, "ERROR">> \in hs.reports /\ i \notin hs.derives

\* The reports of a run that evaluates the rows one after the other, in the
\* order of the file: it ends at the first row that panics.
SequentialReports(data_type, rows) ==
    LET panics == {i \in 1..Len(rows) : test_row(data_type, rows[i]).outcome = "panic"}
    IN  UNION {reports_of(data_type, rows, i) :
                 i \in {j \in 1..Len(rows) : \A k \in panics : j < k}}

\* C18: under every interleaving of the workers, the rows reported as FAIL
\* or ERROR by the end of the run are those that a sequential run reports.
C18_ReportsAsSequential ==
    (hs.pc = "exit" /\ hs.exit # 2 /\ hs.args.readable /\ hs.args.hash_ok
     /\ hs.args.data_type \in DATA_TYPES)
        => hs.reports = SequentialReports(hs.args.data_type, hs.rows)

-----------------------------------------------------------------------------
(* Properties of Krt::to_term (specification SpecToTerm).                  *)

\* C19: the term that to_term yields has the string form of the affix as
\* its upadesha and carries the tags Pratyaya and Krt; it carries Krtya if
\* and only if the affix is one of the base krts tavyat, tavya, anIyar, yat,
\* kyap, Ryat, and Unadi if and only if the affix is an unadi affix.
C19_ToTermTags ==
    ucall.done =>
        /\ ucall.term.u = ucall.krt.s
        /\ {"Pratyaya", "Krt"} \subseteq ucall.term.tags
        /\ "Krtya" \in ucall.term.tags
              <=> /\ ucall.krt.kind = "Base"
                  /\ ucall.krt.s \in {<<"t", "a", "v", "y", "a", "t">>, <<"t", "a", "v", "y", "a">>,
                                      <<"a", "n", "I", "y", "a", "r">>, <<"y", "a", "t">>,
                                      <<"k", "y", "a", "p">>, <<"R", "y", "a", "t">>}
        /\ "Unadi" \in ucall.term.tags <=> ucall.krt.kind = "Unadi"

\* The conversion of a krtya-pratyaya.
C19_KrtyaConverted ==
    /\ ucall.done
    /\ ucall.krt = Base(<<"a", "n", "I", "y", "a", "r">>)
    /\ ucall.term.tags = {"Pratyaya", "Krt", "Krtya"}

-----------------------------------------------------------------------------
(* Properties of the Unadipatha dispatch (specification SpecUnadi).        *)

\* The first dhatu of a prakriya that has one.
FirstDhatu(p) == p_get(p, find_first_dhatu(p))

\* The terms of p that are the krt affix.
KrtTerms(p, krt) ==
    {j \in 1..Len(p.terms) : p.terms[j].u = krt.s /\ "Krt" \in p.terms[j].tags}

\* Whether the request was for abac on a dhatu whose text is kad.
AbacOnKad ==
    /\ ucall.done
    /\ ucall.krt = Unadi(<<"a", "b", "a", "c">>)
    /\ has_dhatu(ucall.p0)
    /\ has_text(FirstDhatu(ucall.p0), <<"k", "a", "d">>)

\* C3: for abac on a dhatu whose text is kad, both branches of the optional
\* rule UP 4.82 end with the affix added exactly once: the accepting branch
\* adds it under UP 4.82 and tags it Rit, the declining branch records the
\* decline and adds it under UP 4.81 without the tag.
C3_AbacOnKadBothBranches ==
    AbacOnKad =>
        LET p == ucall.p
            t == p.terms[Len(p.terms)]
            accepted == UP("4.82") \notin ucall.p0.config.declined
        IN  /\ ucall.ret
            /\ Len(p.terms) = Len(ucall.p0.terms) + 1
            /\ Cardinality(KrtTerms(p, Unadi(<<"a", "b", "a", "c">>))) = 1
            /\ t.u = Unadi(<<"a", "b", "a", "c">>).s
            /\ "Krt" \in t.tags
            /\ ("Rit" \in t.tags) <=> accepted
            /\ p.rule_choices =
                  IF accepted THEN <<>>
                  ELSE <<[rule |-> UP("4.82"), decision |-> "Decline"]>>
            /\ p.config.log_steps =>
                  /\ Len(p.steps) = 1
                  /\ p.steps[1].rule = IF accepted THEN UP("4.82") ELSE UP("4.81")

\* The declining branch of abac on kad, with its step logged.
C3_DecliningBranch ==
    /\ AbacOnKad
    /\ UP("4.82") \in ucall.p0.config.declined
    /\ ucall.p0.config.log_steps
    /\ ucall.ret

\* Whether the arm of krt has a rule for the prakriya's first dhatu.
Applies(p, krt) ==
    /\ has_dhatu(p)
    /\ LET i == find_first_dhatu(p)
       IN  unadi_arm(KrtPrakriya_new(p, krt), krt, i, p_has_u(p, i + 1, <<"R", "i", "c">>),
                     p_get(p, i)) # <<>>

\* C8: for every unadi affix and every prakriya whose dhatu does not satisfy
\* the affix's applicability predicate, the dispatch leaves the prakriya as
\* it was (terms, texts, tags, steps, rule choices, artha) and reports that
\* no affix was added.
C8_InapplicableLeavesPrakriya ==
    (ucall.done /\ ucall.krt.kind = "Unadi" /\ ~Applies(ucall.p0, ucall.krt)) =>
        /\ ucall.p = ucall.p0
        /\ ~ucall.ret

\* A request for uR on the dhatu BU, which uR has no rule for.
C8_InapplicableRequest ==
    /\ ucall.done
    /\ ucall.krt = Unadi(<<"u", "R">>)
    /\ has_dhatu(ucall.p0)
    /\ has_u(FirstDhatu(ucall.p0), <<"B", "U">>)
    /\ ~Applies(ucall.p0, ucall.krt)

\* Whether the request was for uR on the dhatu qukf\Y.
uROnKf ==
    /\ ucall.done
    /\ ucall.krt = Unadi(<<"u", "R">>)
    /\ has_dhatu(ucall.p0)
    /\ has_u(FirstDhatu(ucall.p0), <<"q", "u", "k", "f", "\\", "Y">>)

\* C9: a request for uR on a prakriya whose dhatu has the upadesha qukf\Y
\* appends uR as the last term under UP 1.1, and no other unadi rule fires
\* in the call.
C9_uRAfterKf ==
    uROnKf =>
        LET p == ucall.p
            n == Len(ucall.p0.terms)
        IN  /\ ucall.ret
            /\ Len(p.terms) = n + 1
            /\ SubSeq(p.terms, 1, n) = ucall.p0.terms
            /\ p.terms[n + 1].u = <<"u", "R">>
            /\ p.terms[n + 1].text = <<"u">>
            /\ {"Pratyaya", "Krt", "Unadi", "Rit"} \subseteq p.terms[n + 1].tags
            /\ p.rule_choices = <<>>
            /\ p.config.log_steps =>
                  /\ Len(p.steps) = 1
                  /\ p.steps[1].rule = UP("1.1")
                  /\ p.steps[1].result =
                        [j \in 1..n |-> ucall.p0.terms[j].text] \o <<<<"u", "R">>>>

\* A request for uR on the bare dhatu qukf\Y, with its step logged.
C9_uRRequested ==
    /\ uROnKf
    /\ Len(ucall.p0.terms) = 1
    /\ ucall.p0.config.log_steps
    /\ ucall.ret

\* C21: run(p, krt) returns true if and only if the call appended exactly
\* one term, the requested affix, to the prakriya; it returns false for
\* every krt that is not an unadi affix, for a prakriya without a dhatu,
\* and when no rule of the affix matched.
C21_TrueIffOneTermAppended ==
    (ucall.done /\ ~panicked) =>
        LET n == Len(ucall.p0.terms)
            p == ucall.p
        IN  /\ Len(p.terms) \in {n, n + 1}
            /\ ucall.ret <=> Len(p.terms) = n + 1
            /\ ucall.ret =>
                  /\ p.terms[n + 1].u = ucall.krt.s
                  /\ {"Pratyaya", "Krt", "Unadi"} \subseteq p.terms[n + 1].tags
                  /\ \A j \in 1..n : p.terms[j].u = ucall.p0.terms[j].u
            /\ ucall.krt.kind # "Unadi" => ~ucall.ret
            /\ ~has_dhatu(ucall.p0) => ~ucall.ret
            /\ (ucall.krt.kind = "Unadi" /\ ~Applies(ucall.p0, ucall.krt)) => ~ucall.ret

\* A request that returns true on a dhatu that is followed by Ric.
C21_AddedAfterRic ==
    /\ ucall.done
    /\ ucall.ret
    /\ Len(ucall.p0.terms) = 3
    /\ Len(ucall.p.terms) = 4
    /\ ucall.p0.terms[3].u = <<"R", "i", "c">>

\* C22: at most one krt is added per KrtPrakriya.  Over any sequence of
\* operations at most one operation changes the terms of the prakriya:
\* an operation made once has_krt is set leaves the terms as they are, an
\* operation that changes the terms sets has_krt, and has_krt stays set.
C22_AtMostOneMutation ==
    last.op # "new" =>
        /\ last.pre.has_krt => (kp.has_krt /\ kp.p.terms = last.pre.p.terms)
        /\ kp.p.terms # last.pre.p.terms => (kp.has_krt /\ ~last.pre.has_krt)

\* The calls that the arm of krt makes for the prakriya p, which has a dhatu.
ArmCalls(p, krt) ==
    LET i == find_first_dhatu(p)
    IN  unadi_arm(KrtPrakriya_new(p, krt), krt, i, p_has_u(p, i + 1, <<"R", "i", "c">>),
                  p_get(p, i))

\* The term indices that the closure f edits on the prakriya p.
EditIndices(p, f) ==
    CASE f.kind = "none" -> {}
      [] f.kind = "mark_as" -> {mark_as_index(p)}
      [] f.kind \in {"set_text", "set_antya"} -> {set_text_index(p)}
      [] f.kind = "set_text_and_tag_next" -> {f.i, f.i + 1}
      [] OTHER -> {f.i}

\* C23: try_add_unadi never edits or reads a term index out of range.  For
\* every prakriya (an empty one, one without a dhatu, one whose dhatu is the
\* only or the last term) and every unadi affix the request ends without a
\* panic; when it reaches the rules, the index that dhatu() reads is in
\* range, and every index that a rule's closure computes for an edit (the
\* last term, the second-to-last term, i, i + 1) is a term of the prakriya
\* that the closure runs on, with no subtraction below zero.
C23_IndicesInRange ==
    /\ ~panicked
    /\ (ucall.done /\ ucall.some) =>
          LET k0 == KrtPrakriya_new(ucall.p0, ucall.krt)
              pushed == p_push(ucall.p0, to_term(ucall.krt))
              cs == ArmCalls(ucall.p0, ucall.krt)
          IN  /\ ~dhatu_panics(k0)
              /\ \A n \in 1..Len(cs) : \A j \in EditIndices(pushed, cs[n].func) :
                    j >= 0 /\ p_in_range(pushed, j)

\* A rule with a set_text closure has applied on a prakriya whose only term
\* is the dhatu.
C23_SetTextOnLoneDhatu ==
    /\ ucall.done
    /\ ucall.ret
    /\ Len(ucall.p0.terms) = 1
    /\ \E n \in 1..Len(ArmCalls(ucall.p0, ucall.krt)) :
          ArmCalls(ucall.p0, ucall.krt)[n].func.kind = "set_text"

\* Whether the request applied a rule whose closure is one of the helpers
\* set_text and set_antya.
HelperRuleApplied ==
    /\ ucall.done
    /\ ucall.ret
    /\ ArmCalls(ucall.p0, ucall.krt) # <<>>
    /\ ~ArmCalls(ucall.p0, ucall.krt)[1].optional
    /\ ArmCalls(ucall.p0, ucall.krt)[1].func.kind \in {"set_text", "set_antya"}

\* C24: when an unadi rule transforms the dhatu with set_text or set_antya,
\* the term that is rewritten is the dhatu term that satisfied the rule's
\* predicate (the first dhatu), whatever terms stand between that dhatu and
\* the new affix; the other terms the request was made on are left alone.
C24_HelperRewritesMatchedDhatu ==
    HelperRuleApplied =>
        LET i == find_first_dhatu(ucall.p0)
            f == ArmCalls(ucall.p0, ucall.krt)[1].func
            d == p_get(ucall.p0, i)
        IN  /\ p_get(ucall.p, i) = IF f.kind = "set_text" THEN term_set_text(d, f.text)
                                   ELSE term_set_antya(d, f.text)
            /\ \A j \in 0..(Len(ucall.p0.terms) - 1) :
                  j # i => p_get(ucall.p, j) = p_get(ucall.p0, j)

\* C25: for the unadi affix Jac, when the text of the dhatu is an and the
\* term before the dhatu is the upasarga pra, the affix is added and tagged
\* zit (under UP 3.127).
C25_JacAfterPraAn ==
    (/\ ucall.done
     /\ ucall.krt = Unadi(<<"J", "a", "c">>)
     /\ has_dhatu(ucall.p0)
     /\ find_first_dhatu(ucall.p0) > 0
     /\ ~is_nin_hack(ucall.p0, find_first_dhatu(ucall.p0))
     /\ has_text(FirstDhatu(ucall.p0), <<"a", "n">>)
     /\ is_upasarga(p_get(ucall.p0, find_first_dhatu(ucall.p0) - 1))
     /\ has_text(p_get(ucall.p0, find_first_dhatu(ucall.p0) - 1), <<"p", "r", "a">>))
        => /\ ucall.ret
           /\ Len(ucall.p.terms) = Len(ucall.p0.terms) + 1
           /\ ucall.p.terms[Len(ucall.p.terms)].u = <<"J", "a", "c">>
           /\ "zit" \in ucall.p.terms[Len(ucall.p.terms)].tags

\* Whether the term after the first dhatu of p has the upadesha RiN.
RiNAfterDhatu(p) ==
    /\ has_dhatu(p)
    /\ p_in_range(p, find_first_dhatu(p) + 1)
    /\ p_get(p, find_first_dhatu(p) + 1).u = <<"R", "i", "N">>

\* C26: when the term immediately after the first dhatu has the upadesha
\* RiN, try_add_unadi adds no affix, whatever affix is requested: it returns
\* None, run returns false, and the prakriya is as it was.
C26_NothingAfterRiN ==
    (ucall.done /\ RiNAfterDhatu(ucall.p0)) =>
        /\ ~ucall.some
        /\ ~ucall.ret
        /\ ucall.p = ucall.p0

\* A request after RiN for an affix that has a rule for the dhatu.
C26_ApplicableAfterRiN ==
    /\ ucall.done
    /\ RiNAfterDhatu(ucall.p0)
    /\ ucall.krt.kind = "Unadi"
    /\ Applies(ucall.p0, ucall.krt)
    /\ ucall.p0.config.log_steps

C28_ReportLinesContiguous ==
    hs.pc # "none" =>
    \A k \in 1..Len(hs.out) :
        /\ hs.out[k].line = "FAIL" =>
              /\ k + 1 <= Len(hs.out) =>
                    (hs.out[k + 1].row = hs.out[k].row /\ hs.out[k + 1].line = "Expected")
              /\ k + 2 <= Len(hs.out) =>
                    (hs.out[k + 2].row = hs.out[k].row /\ hs.out[k + 2].line = "Actual")
        /\ hs.out[k].line = "Expected" =>
              (k > 1 /\ hs.out[k - 1].row = hs.out[k].row /\ hs.out[k - 1].line = "FAIL")
        /\ hs.out[k].line = "Actual" =>
              (k > 1 /\ hs.out[k - 1].row = hs.out[k].row /\ hs.out[k - 1].line = "Expected")

\* A worker has a row to report while another worker is in the middle of
\* its report.
C28_WriterWaits ==
    /\ hs.pc = "rows"
    /\ hs.lock # 0
    /\ hs.written = 1
    /\ \E i \in hs.running :
          /\ i # hs.lock
          /\ reports_of(hs.args.data_type, hs.rows, i) # {}

\* C29: the [ FAIL ] line of a tinanta row shows the lakara, the purusha
\* and the vacana that the row was derived with.
C29_FailLineShowsRowArgs ==
    hs.pc # "none" =>
        \A k \in 1..Len(hs.out) :
            (hs.out[k].line = "FAIL" /\ hs.args.data_type = "tinanta") =>
                LET args == tinanta_args(record_of(hs.rows[hs.out[k].row]))
                IN  hs.out[k].cols = [lakara |-> args.lakara, purusha |-> args.purusha,
                                      vacana |-> args.vacana]

-----------------------------------------------------------------------------
(* Properties of the Ganapatha (specification SpecGana).                   *)

\* C30: every entry of every gana list is a bare lexeme, with no blank
\* before, after or inside it, so that the membership test by exact
\* equality finds each listed word in its list.
C30_EntriesAreBareLexemes ==
    /\ ucall.entry = ucall.word
    /\ \A j \in 1..Len(ucall.entry) : ucall.entry[j] # " "
    /\ ucall.done => ucall.found

=============================================================================
